---- MODULE Spec2Model ----
(***************************************************************************)
(* Grade manager: the Repo/Assignment Resolver of the teacher dashboard    *)
(* (GitHubClassroomAPI, github-classroom-api.ts), the offline batch script *)
(* that writes the static snapshot (fetch-students-data.js), the IndexedDB *)
(* cache manager (cache-manager.ts) and the static snapshot loader         *)
(* (static-cache.ts).                                                      *)
(*                                                                         *)
(* Strings that the code splits on '-' (repository names, assignment       *)
(* names, usernames) are tuples of hyphen-free segments: "mario-less" is   *)
(* <<"mario", "less">>.  startsWith(name + '-'), ===, split('-') and       *)
(* substring(name.length + 1) are then exact operations on these tuples.   *)
(***************************************************************************)
EXTENDS Integers, Sequences, FiniteSets, TLC

\* null / undefined of an object value
Null == [null |-> TRUE]

\* null / undefined of a string value (the empty string is <<"">>)
NoStr == <<>>

\* a JSON array value, so that it can stand where null can
Arr(items) == [array |-> items]

\* an absent date (lastCommitDate?: string); dates are positive numbers
NoDate == 0

RECURSIVE Map(_, _)
\* Array.prototype.map
Map(F(_), s) ==
    IF s = <<>> THEN <<>> ELSE <<F(Head(s))>> \o Map(F, Tail(s))

\* ------------------------------------------------------------------------
\* Strings as tuples of segments
\* ------------------------------------------------------------------------

RECURSIVE SumLen(_)
SumLen(s) ==
    IF s = <<>> THEN 0 ELSE Len(Head(s)) + SumLen(Tail(s))

\* String.prototype.length of the joined string: the segments plus the hyphens
StrLen(s) ==
    IF s = <<>> THEN 0 ELSE SumLen(s) + (Len(s) - 1)

\* cleaned.startsWith(name + '-'): name's segments lead and at least one
\* more segment (possibly empty) follows
StartsWithDash(cleaned, name) ==
    /\ Len(cleaned) > Len(name)
    /\ SubSeq(cleaned, 1, Len(name)) = name

\* cleaned.substring(name.length + 1)
SubstringAfter(cleaned, name) ==
    SubSeq(cleaned, Len(name) + 1, Len(cleaned))

\* String.prototype.toLowerCase on one segment, for the segments the model uses
ToLowerSeg(seg) ==
    CASE seg = "NVNACS50" -> "nvnacs50"
      [] seg = "Hello" -> "hello"
      [] seg = "Mario" -> "mario"
      [] seg = "Alice" -> "alice"
      [] seg = "Bob" -> "bob"
      [] OTHER -> seg

ToLowerCase(s) == Map(ToLowerSeg, s)

\* ------------------------------------------------------------------------
\* The course definition
\* ------------------------------------------------------------------------

Required(n, alts) ==
    [type |-> "required", name |-> n, alternativeNames |-> alts, options |-> <<>>]

Choice(opts) ==
    [type |-> "choice", name |-> <<>>, alternativeNames |-> <<>>, options |-> opts]

CS50_ASSIGNMENTS ==
    << Required(<<"hello">>, << <<"me">> >>),
       Choice(<< <<"mario", "less">>, <<"mario", "more">> >>),
       Choice(<< <<"cash">>, <<"credit">> >>),
       Required(<<"scrabble">>, <<>>),
       Required(<<"readability">>, <<>>),
       Choice(<< <<"caesar">>, <<"substitution">> >>),
       Required(<<"sort">>, <<>>),
       Required(<<"plurality">>, <<>>),
       Choice(<< <<"runoff">>, <<"tideman">> >>),
       Required(<<"volume">>, <<>>),
       Choice(<< <<"filter", "less">>, <<"filter", "more">> >>),
       Required(<<"recover">>, <<>>),
       Required(<<"inheritance">>, <<>>),
       Required(<<"speller">>, <<>>) >>

\* const totalAssignments = 14
totalAssignments == 14

Range(s) == {s[i] : i \in DOMAIN s}

\* ------------------------------------------------------------------------
\* calculateCompletedCount, determineStatus, the student summary
\* ------------------------------------------------------------------------

\* new Set(assignments.filter(a => a.status === 'success').map(a => a.name))
SuccessfulNames(assignments) ==
    {assignments[i].name :
        i \in {j \in DOMAIN assignments : assignments[j].status = "success"}}

\* the body of the forEach callback: does this course entry count
EntryCompleted(assignment, successfulNames) ==
    IF assignment.type = "required"
    THEN \/ (assignment.name # <<>> /\ assignment.name \in successfulNames)
         \/ \E alt \in Range(assignment.alternativeNames) : alt \in successfulNames
    ELSE /\ assignment.type = "choice"
         /\ \E opt \in Range(assignment.options) : opt \in successfulNames

RECURSIVE CountCompletedPerOption(_, _)
\* a count that adds one for every successful option of a choice group
CountCompletedPerOption(entries, successfulNames) ==
    IF entries = <<>> THEN 0
    ELSE (IF Head(entries).type = "choice"
          THEN Cardinality(Range(Head(entries).options) \cap successfulNames)
          ELSE IF EntryCompleted(Head(entries), successfulNames) THEN 1 ELSE 0)
         + CountCompletedPerOption(Tail(entries), successfulNames)

RECURSIVE CountCompleted(_, _)
CountCompleted(entries, successfulNames) ==
    IF entries = <<>> THEN 0
    ELSE (IF EntryCompleted(Head(entries), successfulNames) THEN 1 ELSE 0)
         + CountCompleted(Tail(entries), successfulNames)

\* a reducer that counts every successful result, choice options one by one
CountEverySuccess(assignments) ==
    Cardinality({j \in DOMAIN assignments : assignments[j].status = "success"})

calculateCompletedCount(assignments) ==
    CountCompleted(CS50_ASSIGNMENTS, SuccessfulNames(assignments))

\* assignments.filter(a => a.status === 'success').length
NaiveCompletedCount(assignments) ==
    Cardinality({j \in DOMAIN assignments : assignments[j].status = "success"})

\* determineStatus looking at the workflow run before the commit
determineStatusRunFirst(workflow, commit) ==
    IF workflow = Null THEN (IF commit = Null THEN "not_started" ELSE "no_tests")
    ELSE IF workflow.status = "in_progress" \/ workflow.status = "queued"
         THEN "in_progress"
    ELSE IF workflow.conclusion = "success" THEN "success" ELSE "failure"

determineStatus(workflow, commit) ==
    IF commit = Null THEN "not_started"
    ELSE IF workflow = Null THEN "no_tests"
    ELSE IF workflow.status = "in_progress" \/ workflow.status = "queued"
         THEN "in_progress"
    ELSE IF workflow.conclusion = "success" THEN "success" ELSE "failure"

\* Math.round(x / y * 100) for x, y >= 0: round half up
RoundPercent(x, y) ==
    (200 * x + y) \div (2 * y)

\* a summary that looks for a failure before it looks at the count
FailureFirstStatus(completedCount, assignments) ==
    IF \E i \in DOMAIN assignments : assignments[i].status = "failure"
    THEN "failed"
    ELSE IF completedCount = totalAssignments THEN "passed"
    ELSE "in_progress"

\* let studentStatus = 'in_progress'; if (...) 'passed'; else if (...) 'failed'
studentStatus(completedCount, assignments) ==
    IF completedCount = totalAssignments THEN "passed"
    ELSE IF \E i \in DOMAIN assignments : assignments[i].status = "failure"
         THEN "failed"
    ELSE "in_progress"

\* assignments.map(a => a.lastCommitDate).filter(d => d).sort(newest first)[0]
lastActive(assignments) ==
    LET dates == {assignments[i].lastCommitDate : i \in DOMAIN assignments} \ {NoDate}
    IN  IF dates = {} THEN NoDate
        ELSE CHOOSE d \in dates : \A e \in dates : e <= d

\* username.charAt(0).toUpperCase() + username.slice(1), on the first segment
CapitalizeSeg(seg) ==
    CASE seg = "alice" -> "Alice"
      [] seg = "bob" -> "Bob"
      [] seg = "carol" -> "Carol"
      [] OTHER -> seg

Capitalize(username) ==
    IF username = <<>> THEN username
    ELSE <<CapitalizeSeg(Head(username))>> \o Tail(username)

\* the student object pushed by getAllStudentsFromAPI
Student(username, avatarUrl, assignments, completedCount) ==
    [ id |-> username,
      username |-> username,
      name |-> Capitalize(username),
      avatarUrl |-> avatarUrl,
      assignments |-> assignments,
      completedCount |-> completedCount,
      totalAssignments |-> totalAssignments,
      progressPercentage |-> RoundPercent(completedCount, totalAssignments),
      lastActive |-> lastActive(assignments),
      status |-> studentStatus(completedCount, assignments) ]

\* one iteration of the "for (const username of studentUsernames)" loop of
\* the dashboard's getAllStudentsFromAPI, after assignments has been built
BuildStudent(username, avatarUrl, assignments) ==
    Student(username, avatarUrl, assignments, calculateCompletedCount(assignments))

\* ------------------------------------------------------------------------
\* parseAssignmentName, extractUsernameFromRepo
\* ------------------------------------------------------------------------

OrgPrefix == "nvnacs50"

\* lower.replace(/^nvnacs50-/i, '')
StripOrg(lower) ==
    IF Len(lower) >= 2 /\ ToLowerSeg(Head(lower)) = OrgPrefix
    THEN Tail(lower) ELSE lower

AltPairs(assignment) ==
    [i \in DOMAIN assignment.alternativeNames |->
        [name |-> assignment.alternativeNames[i], canonical |-> assignment.name]]

OptionPairs(assignment) ==
    [i \in DOMAIN assignment.options |->
        [name |-> assignment.options[i], canonical |-> assignment.options[i]]]

\* the pairs one course entry pushes onto assignmentNames
EntryPairs(assignment) ==
    IF assignment.type = "required" /\ assignment.name # <<>>
    THEN <<[name |-> assignment.name, canonical |-> assignment.name]>>
         \o AltPairs(assignment)
    ELSE IF assignment.type = "choice" THEN OptionPairs(assignment)
    ELSE <<>>

RECURSIVE CollectPairs(_)
CollectPairs(entries) ==
    IF entries = <<>> THEN <<>>
    ELSE EntryPairs(Head(entries)) \o CollectPairs(Tail(entries))

\* insert p into a list sorted by name length descending, after its equals
\* (Array.prototype.sort is stable)
RECURSIVE InsertByLength(_, _)
InsertByLength(sorted, p) ==
    IF sorted = <<>> THEN <<p>>
    ELSE IF StrLen(Head(sorted).name) >= StrLen(p.name)
         THEN <<Head(sorted)>> \o InsertByLength(Tail(sorted), p)
    ELSE <<p>> \o sorted

RECURSIVE SortByLengthDesc(_, _)
SortByLengthDesc(done, todo) ==
    IF todo = <<>> THEN done
    ELSE SortByLengthDesc(InsertByLength(done, Head(todo)), Tail(todo))

\* assignmentNames after assignmentNames.sort((a, b) => b.name.length - a.name.length)
assignmentNames == SortByLengthDesc(<<>>, CollectPairs(CS50_ASSIGNMENTS))

RECURSIVE FirstMatchedName(_, _)
\* the prefix loop returning the name it matched instead of its canonical name
FirstMatchedName(pairs, cleaned) ==
    IF pairs = <<>> THEN NoStr
    ELSE IF StartsWithDash(cleaned, Head(pairs).name) \/ cleaned = Head(pairs).name
         THEN Head(pairs).name
    ELSE FirstMatchedName(Tail(pairs), cleaned)

RECURSIVE FirstPrefixMatch(_, _)
FirstPrefixMatch(pairs, cleaned) ==
    IF pairs = <<>> THEN NoStr
    ELSE IF StartsWithDash(cleaned, Head(pairs).name) \/ cleaned = Head(pairs).name
         THEN Head(pairs).canonical
    ELSE FirstPrefixMatch(Tail(pairs), cleaned)

RECURSIVE FirstPartMatch(_, _)
FirstPartMatch(pairs, part) ==
    IF pairs = <<>> THEN NoStr
    ELSE IF Head(pairs).name = <<part>> THEN Head(pairs).canonical
    ELSE FirstPartMatch(Tail(pairs), part)

\* a || b on nullable strings that are never empty
OrElse(a, b) == IF a # NoStr THEN a ELSE b

\* the fallback of the earlier parseAssignmentName: the first part of any
\* name of two or more parts
ParseCleanedFirstPart(cleaned) ==
    OrElse(FirstPrefixMatch(assignmentNames, cleaned),
           IF Len(cleaned) >= 2 THEN <<cleaned[1]>> ELSE NoStr)

\* the two loops of parseAssignmentName, on the cleaned name: the prefix
\* match over the sorted names, then the match of the first part
ParseCleaned(cleaned) ==
    OrElse(FirstPrefixMatch(assignmentNames, cleaned),
           IF Len(cleaned) >= 2 THEN FirstPartMatch(assignmentNames, cleaned[1])
           ELSE NoStr)

parseAssignmentName(repoName) ==
    ParseCleaned(StripOrg(ToLowerCase(repoName)))

RECURSIVE FirstAltUsername(_, _)
FirstAltUsername(alts, cleaned) ==
    IF alts = <<>> THEN NoStr
    ELSE IF StartsWithDash(cleaned, Head(alts)) THEN SubstringAfter(cleaned, Head(alts))
    ELSE FirstAltUsername(Tail(alts), cleaned)

\* CS50_ASSIGNMENTS.find(a => a.type === 'required' && a.name === assignmentName)
FindRequired(assignmentName) ==
    LET hits == {i \in DOMAIN CS50_ASSIGNMENTS :
                    /\ CS50_ASSIGNMENTS[i].type = "required"
                    /\ CS50_ASSIGNMENTS[i].name = assignmentName}
    IN  IF hits = {} THEN Null
        ELSE CS50_ASSIGNMENTS[CHOOSE i \in hits : \A j \in hits : i <= j]

\* if (assignment?.alternativeNames) { for (const altName of ...) ... }
AltUsername(assignment, cleaned) ==
    IF assignment # Null
    THEN FirstAltUsername(assignment.alternativeNames, cleaned)
    ELSE NoStr

\* the username taken as the last '-' part of the name, as an earlier
\* extractUsername did
ExtractLastPart(cleaned, assignmentName) ==
    IF assignmentName = NoStr THEN NoStr
    ELSE <<cleaned[Len(cleaned)]>>

\* extractUsernameFromRepo once cleaned and assignmentName are known
ExtractFrom(cleaned, assignmentName) ==
    IF assignmentName = NoStr THEN NoStr
    ELSE IF StartsWithDash(cleaned, assignmentName)
         THEN SubstringAfter(cleaned, assignmentName)
    ELSE AltUsername(FindRequired(assignmentName), cleaned)

extractUsernameFromRepo(repoName) ==
    ExtractFrom(StripOrg(ToLowerCase(repoName)), parseAssignmentName(repoName))

\* JavaScript truthiness of a username: null and "" are falsy
Falsy(username) == username = NoStr \/ username = <<"">>

\* ------------------------------------------------------------------------
\* The live fetch: getOrganizationRepos, getWorkflowStatus, getLatestCommit,
\* getAllStudentsFromAPI
\* ------------------------------------------------------------------------

\* repoName.includes('dashboard') / includes('.github') / startsWith('.'),
\* for the segments the model uses
SegIncludesDashboard(seg) == seg \in {"dashboard", "dashboards"}

SegIncludesDotGithub(seg) == seg \in {".github"}

SegStartsWithDot(seg) == seg \in {".github", ".config"}

\* the filter of getOrganizationRepos: true for the repositories it keeps
IsAssignmentRepo(repo) ==
    LET repoName == ToLowerCase(repo.name)
    IN  /\ ~ \E i \in DOMAIN repoName : SegIncludesDashboard(repoName[i])
        /\ ~ \E i \in DOMAIN repoName : SegIncludesDotGithub(repoName[i])
        /\ ~ SegStartsWithDot(repoName[1])

RECURSIVE Filter(_, _)
Filter(s, keep) ==
    IF s = <<>> THEN <<>>
    ELSE (IF Head(s) \in keep THEN <<Head(s)>> ELSE <<>>) \o Filter(Tail(s), keep)

\* the repository objects of the listing: name and owner, no details
ListedRepo(repo) == [name |-> repo.name, owner |-> repo.owner]

Listing(org) == Map(ListedRepo, org)

\* repos.filter(...) of getOrganizationRepos
assignmentRepos(listing) ==
    Filter(listing, {r \in Range(listing) : IsAssignmentRepo(r)})

\* the state GitHub holds for a repository name; Null when there is none
\* (the detail request then answers 404)
RepoState(org, repoName) ==
    IF \E i \in DOMAIN org : org[i].name = repoName
    THEN org[CHOOSE i \in DOMAIN org : org[i].name = repoName]
    ELSE Null

\* data.workflow_runs?.[0] || null of the repository's state
LatestRun(state) == IF state = Null THEN Null ELSE state.run

\* commits[0] || null of the repository's state
LatestCommit(state) == IF state = Null THEN Null ELSE state.commit

\* null when the request throws
getWorkflowStatus(org, repoName, failed) ==
    IF failed THEN Null ELSE LatestRun(RepoState(org, repoName))

\* null when the request throws
getLatestCommit(org, repoName, failed) ==
    IF failed THEN Null ELSE LatestCommit(RepoState(org, repoName))

\* if (!username) continue; if (!studentReposMap.has(username)) set(...)
AddUsername(seen, username) ==
    IF Falsy(username) \/ username \in Range(seen) THEN seen
    ELSE Append(seen, username)

RECURSIVE Usernames(_, _)
\* Array.from(studentReposMap.keys()): usernames in order of first appearance
Usernames(repos, seen) ==
    IF repos = <<>> THEN seen
    ELSE Usernames(Tail(repos),
                   AddUsername(seen, extractUsernameFromRepo(Head(repos).name)))

\* a callback whose detail requests are all lost when any request fails
RepoDataAllOrNothing(org, repo, failedWorkflow, failedCommit) ==
    [ repoName |-> repo.name,
      ownerLogin |-> repo.owner.login,
      assignmentName |-> parseAssignmentName(repo.name),
      workflow |-> getWorkflowStatus(org, repo.name, failedWorkflow # {}),
      commit |-> getLatestCommit(org, repo.name, failedCommit # {}),
      avatarUrl |-> repo.owner.avatar_url ]

\* the callback handed to batchPromises, for one repository
RepoData(org, repo, failedWorkflow, failedCommit) ==
    [ repoName |-> repo.name,
      ownerLogin |-> repo.owner.login,
      assignmentName |-> parseAssignmentName(repo.name),
      workflow |-> getWorkflowStatus(org, repo.name, repo.name \in failedWorkflow),
      commit |-> getLatestCommit(org, repo.name, repo.name \in failedCommit),
      avatarUrl |-> repo.owner.avatar_url ]

\* (await this.batchPromises(repos, ...)).filter(d => d !== null)
allRepoData(org, repos, failedWorkflow, failedCommit) ==
    Map(LAMBDA repo : RepoData(org, repo, failedWorkflow, failedCommit),
        Filter(repos, {r \in Range(repos) : parseAssignmentName(r.name) # NoStr}))

\* data => ({ name, repoName, status, lastCommitDate, workflowStatus })
AssignmentOf(data) ==
    [ name |-> data.assignmentName,
      repoName |-> data.repoName,
      status |-> determineStatus(data.workflow, data.commit),
      lastCommitDate |-> IF data.commit = Null THEN NoDate ELSE data.commit.date ]

\* studentRepoData[0]?.avatarUrl || ''
FirstAvatar(studentRepoData) ==
    IF studentRepoData = <<>> THEN "" ELSE studentRepoData[1].avatarUrl

\* a.name.localeCompare(b.name) < 0 for the names the model uses: names
\* collate on their first segment
CollationRank(seg) ==
    CASE seg = "Alice" -> 1
      [] seg = "Bob" -> 2
      [] seg = "Carol" -> 3
      [] OTHER -> 4

NameBefore(a, b) == CollationRank(a[1]) < CollationRank(b[1])

RECURSIVE InsertByName(_, _)
InsertByName(sorted, s) ==
    IF sorted = <<>> THEN <<s>>
    ELSE IF NameBefore(s.name, Head(sorted).name) THEN <<s>> \o sorted
    ELSE <<Head(sorted)>> \o InsertByName(Tail(sorted), s)

RECURSIVE SortByName(_, _)
\* students.sort((a, b) => a.name.localeCompare(b.name)), a stable sort
SortByName(done, todo) ==
    IF todo = <<>> THEN done
    ELSE SortByName(InsertByName(done, Head(todo)), Tail(todo))

\* every student given the data of every repository
studentRepoDataUnfiltered(repoData, username) == repoData

\* allRepoData.filter(d => this.extractUsernameFromRepo(d.repoName) === username)
studentRepoData(repoData, username) ==
    Filter(repoData, {d \in Range(repoData) :
                        extractUsernameFromRepo(d.repoName) = username})

\* the student built from their repositories' data
StudentOf(username, data) ==
    BuildStudent(username, FirstAvatar(data), Map(AssignmentOf, data))

\* the loop over studentUsernames, then the sort by name
BuildStudents(studentUsernames, repoData) ==
    SortByName(<<>>,
        Map(LAMBDA username :
                StudentOf(username, studentRepoData(repoData, username)),
            studentUsernames))

\* the body of getAllStudentsFromAPI once the listing has answered
getAllStudentsFromAPI(org, repos, failedWorkflow, failedCommit) ==
    BuildStudents(Usernames(repos, <<>>),
                  allRepoData(org, repos, failedWorkflow, failedCommit))

\* ------------------------------------------------------------------------
\* The offline batch script fetch-students-data.js, which writes the
\* static snapshot
\* ------------------------------------------------------------------------

Flat(n, alts) == [name |-> n, alternativeNames |-> alts]

\* the script's own CS50_ASSIGNMENTS: a flat list, choice options as entries
BATCH_CS50_ASSIGNMENTS ==
    << Flat(<<"hello">>, << <<"me">> >>),
       Flat(<<"mario", "less">>, <<>>), Flat(<<"mario", "more">>, <<>>),
       Flat(<<"cash">>, <<>>), Flat(<<"credit">>, <<>>),
       Flat(<<"scrabble">>, <<>>), Flat(<<"readability">>, <<>>),
       Flat(<<"caesar">>, <<>>), Flat(<<"substitution">>, <<>>),
       Flat(<<"sort">>, <<>>), Flat(<<"plurality">>, <<>>),
       Flat(<<"runoff">>, <<>>), Flat(<<"tideman">>, <<>>),
       Flat(<<"volume">>, <<>>),
       Flat(<<"filter", "less">>, <<>>), Flat(<<"filter", "more">>, <<>>),
       Flat(<<"recover">>, <<>>), Flat(<<"inheritance">>, <<>>),
       Flat(<<"speller">>, <<>>) >>

\* [...CS50_ASSIGNMENTS].sort((a, b) => b.name.length - a.name.length)
sortedAssignments == SortByLengthDesc(<<>>, BATCH_CS50_ASSIGNMENTS)

RECURSIVE BatchFirstMatch(_, _)
BatchFirstMatch(entries, cleaned) ==
    IF entries = <<>> THEN NoStr
    ELSE LET a == Head(entries)
         IN  IF StartsWithDash(cleaned, a.name) \/ cleaned = a.name THEN a.name
             ELSE IF \E alt \in Range(a.alternativeNames) :
                        StartsWithDash(cleaned, alt) \/ cleaned = alt
                  THEN a.name
             ELSE BatchFirstMatch(Tail(entries), cleaned)

RECURSIVE BatchFirstPartMatch(_, _)
BatchFirstPartMatch(entries, part) ==
    IF entries = <<>> THEN NoStr
    ELSE LET a == Head(entries)
         IN  IF a.name = <<part>> \/ <<part>> \in Range(a.alternativeNames)
             THEN a.name
             ELSE BatchFirstPartMatch(Tail(entries), part)

BatchParseCleaned(cleaned) ==
    OrElse(BatchFirstMatch(sortedAssignments, cleaned),
           IF Len(cleaned) >= 2
           THEN BatchFirstPartMatch(BATCH_CS50_ASSIGNMENTS, cleaned[1])
           ELSE NoStr)

batchParseAssignmentName(repoName) ==
    BatchParseCleaned(StripOrg(ToLowerCase(repoName)))

\* CS50_ASSIGNMENTS.find(a => a.name === assignmentName)
BatchFind(assignmentName) ==
    LET hits == {i \in DOMAIN BATCH_CS50_ASSIGNMENTS :
                    BATCH_CS50_ASSIGNMENTS[i].name = assignmentName}
    IN  IF hits = {} THEN Null
        ELSE BATCH_CS50_ASSIGNMENTS[CHOOSE i \in hits : \A j \in hits : i <= j]

BatchExtractFrom(cleaned, assignmentName) ==
    IF assignmentName = NoStr THEN NoStr
    ELSE IF StartsWithDash(cleaned, assignmentName)
         THEN SubstringAfter(cleaned, assignmentName)
    ELSE AltUsername(BatchFind(assignmentName), cleaned)

batchExtractUsernameFromRepo(repoName) ==
    BatchExtractFrom(StripOrg(ToLowerCase(repoName)),
                     batchParseAssignmentName(repoName))

RECURSIVE BatchUsernames(_, _)
BatchUsernames(repos, seen) ==
    IF repos = <<>> THEN seen
    ELSE BatchUsernames(Tail(repos),
            AddUsername(seen, batchExtractUsernameFromRepo(Head(repos).name)))

BatchRepoData(org, repo) ==
    [ repoName |-> repo.name,
      ownerLogin |-> repo.owner.login,
      assignmentName |-> batchParseAssignmentName(repo.name),
      workflow |-> getWorkflowStatus(org, repo.name, FALSE),
      commit |-> getLatestCommit(org, repo.name, FALSE),
      avatarUrl |-> repo.owner.avatar_url ]

\* the script's loop body: completedCount is the number of successful results
BatchBuildStudent(username, avatarUrl, assignments) ==
    Student(username, avatarUrl, assignments, NaiveCompletedCount(assignments))

\* getAllStudents of the script
batchAllRepoData(org, repos) ==
    Map(LAMBDA repo : BatchRepoData(org, repo),
        Filter(repos, {r \in Range(repos) :
                         batchParseAssignmentName(r.name) # NoStr}))

batchStudentRepoData(repoData, username) ==
    Filter(repoData, {d \in Range(repoData) :
                        batchExtractUsernameFromRepo(d.repoName) = username})

BatchStudentOf(username, data) ==
    BatchBuildStudent(username, FirstAvatar(data), Map(AssignmentOf, data))

BatchBuildStudents(studentUsernames, repoData) ==
    SortByName(<<>>,
        Map(LAMBDA username :
                BatchStudentOf(username, batchStudentRepoData(repoData, username)),
            studentUsernames))

\* getAllStudents of the script, on the listing of getOrganizationRepos
batchStudentsOf(org, repos) ==
    BatchBuildStudents(BatchUsernames(repos, <<>>), batchAllRepoData(org, repos))

batchGetAllStudents(org) ==
    batchStudentsOf(org, assignmentRepos(Listing(org)))

\* ------------------------------------------------------------------------
\* cache-manager.ts: schema validation
\* ------------------------------------------------------------------------

RequiredFields ==
    {"id", "username", "name", "avatarUrl", "assignments", "completedCount",
     "totalAssignments", "progressPercentage", "status"}

\* the loop over data.assignments of validateStudent
validateAssignment(assignment) ==
    /\ "name" \in DOMAIN assignment
    /\ assignment.name # NoStr /\ assignment.name # <<"">>
    /\ "repoName" \in DOMAIN assignment
    /\ assignment.repoName # NoStr /\ assignment.repoName # <<"">>
    /\ "status" \in DOMAIN assignment
    /\ assignment.status \in
          {"success", "failure", "in_progress", "not_started", "no_tests"}

\* the typeof checks hold of every value of the model: a field that is
\* present holds a value of its type
validateStudent(data) ==
    /\ data # Null
    /\ \A field \in RequiredFields : field \in DOMAIN data
    /\ data.status \in {"passed", "in_progress", "failed"}
    /\ \A i \in DOMAIN data.assignments : validateAssignment(data.assignments[i])

\* Array.isArray(data) and every element a valid student
validateStudentsArray(data) ==
    /\ "array" \in DOMAIN data
    /\ \A i \in DOMAIN data.array : validateStudent(data.array[i])

\* ------------------------------------------------------------------------
\* Program constants and bounds
\* ------------------------------------------------------------------------

\* private readonly INDEXEDDB_TTL = 30 * 60 * 1000
INDEXEDDB_TTL == 30 * 60 * 1000

\* private readonly STATIC_CACHE_MAX_AGE = 2 * 60 * 60 * 1000
STATIC_CACHE_MAX_AGE == 2 * 60 * 60 * 1000

\* per_page=100 of the repository listing
PER_PAGE == 100

\* lastSyncTimestamp: number | null = null
NoTimestamp == 0 - 1

\* callers of the API (dashboard loads); each call runs on its own
\* GitHubClassroomAPI instance
NumCallers == 1

\* calls started in one behaviour
MaxCalls == 2

\* advances of the clock in one behaviour
MaxTicks == 2

\* runs of the offline batch script in one behaviour
MaxBatchRuns == 1

\* course entries whose results deviate from the base list of a reducer input
MaxDeviations == 2

Callers == 1..NumCallers

\* Date.now() when the behaviour starts
StartTime == 3 * STATIC_CACHE_MAX_AGE

\* the amounts by which the clock advances in one step
TickSteps == {1, INDEXEDDB_TTL - 1}

\* ------------------------------------------------------------------------
\* The organization on GitHub
\* ------------------------------------------------------------------------

Run(status, conclusion) == [status |-> status, conclusion |-> conclusion]

Commit(date) == [date |-> date]

Repo(name, login, commit, run) ==
    [ name |-> name,
      owner |-> [login |-> login, avatar_url |-> login],
      commit |-> commit,
      run |-> run ]

\* alice solved both mario options, failed hello (as "me"); bob's cash is
\* still running; plus a dashboard repository and an unknown assignment
GitHubA ==
    << Repo(<<"nvnacs50", "mario", "less", "alice">>, "org", Commit(5),
            Run("completed", "success")),
       Repo(<<"nvnacs50", "cash", "Bob">>, "org", Commit(4),
            Run("in_progress", "")),
       Repo(<<"nvnacs50", "mario", "more", "alice">>, "org", Commit(6),
            Run("completed", "success")),
       Repo(<<"nvnacs50", "me", "alice">>, "org", Commit(3),
            Run("completed", "failure")),
       Repo(<<"nvnacs50", "dashboard">>, "org", Commit(1), Null),
       Repo(<<"nvnacs50", "notes", "carol">>, "org", Commit(2), Null) >>

\* later: bob's cash passed, alice has not started credit
GitHubB ==
    << Repo(<<"nvnacs50", "mario", "less", "alice">>, "org", Commit(5),
            Run("completed", "success")),
       Repo(<<"nvnacs50", "cash", "Bob">>, "org", Commit(4),
            Run("completed", "success")),
       Repo(<<"nvnacs50", "credit", "alice">>, "org", Null, Null) >>

\* the organization over time
Worlds == <<GitHubA, GitHubB>>

\* ------------------------------------------------------------------------
\* State
\* ------------------------------------------------------------------------

VARIABLES
    rAssignments,   \* reducer input: the Assignment[] of one student
    rStudent,       \* the student object built from it, Null before
    input,          \* the arguments of the function or loop under study
    output,         \* what it has returned or done so far, Null before
    page,           \* the dashboard page's state (useState of page.tsx)
    gist,           \* quiz-results.json of the results gist, parsed
    worker,         \* per request: the results worker's fetch handler in progress
    quiz,           \* the quiz page: its QuizManager and the dialog it shows
    auth,           \* the login page: sessionStorage, localStorage, handleCallback
    now,            \* Date.now()
    ticks,          \* clock advances so far
    github,         \* the organization's repositories as GitHub holds them
    snapshot,       \* the static files cache/students.json, cache/metadata.json
    batchRuns,      \* runs of the offline batch script so far
    idb,            \* the IndexedDB entry under key 'students', Null if none
    txq,            \* IndexedDB transactions created and not yet run, oldest first
    call,           \* per caller: the getAllStudents / forceSync call in progress
    calls,          \* calls started so far
    lastOk          \* the last call that returned: its payload and tier-1 write time

vars ==
    <<rAssignments, rStudent, input, output, page, gist, worker, quiz, auth,
      now, ticks, github, snapshot,
      batchRuns, idb, txq, call, calls, lastOk>>

\* what the calls of GitHubClassroomAPI leave alone
reduceVars == <<rAssignments, rStudent, input, output, page, gist, worker, quiz, auth>>

tierVars == <<now, ticks, github, snapshot, batchRuns, idb, txq, call, calls, lastOk>>

\* CacheEntry<T> as saveToCache builds it
CacheEntry(data, at, ttlMs) ==
    [key |-> "students", data |-> data, timestamp |-> at, expiresAt |-> at + ttlMs]

\* the static files: each is Null when the file does not exist
Snapshot(students, metadata) == [students |-> students, metadata |-> metadata]

\* metadata.json as main() of the batch script writes it
StaticCacheMetadata(at, students) ==
    [timestamp |-> at, studentCount |-> Len(students)]

\* a students array of a prior schema version: no status, no progressPercentage
ForeignStudents ==
    Arr(<< [ id |-> <<"alice">>, username |-> <<"alice">>, name |-> <<"Alice">>,
             avatarUrl |-> "org", assignments |-> <<>>, completedCount |-> 0,
             totalAssignments |-> 14 ] >>)

\* a call that has not started
IdleCall ==
    [ kind |-> "none",
      pc |-> "idle",
      cache |-> Null,            \* this.cache.get('repos-<org>')
      cached |-> Null,           \* result of getFromCache
      staticData |-> Null,       \* result of fetchStaticCache
      repos |-> <<>>,            \* result of getOrganizationRepos
      liveData |-> Null,         \* result of getAllStudentsFromAPI
      result |-> Null,           \* the value the call resolved with
      error |-> "",              \* the message the call rejected with
      lastDataSource |-> "null",
      lastSyncTimestamp |-> NoTimestamp,
      \* what the call did and saw, kept for the properties
      seen |-> Null,             \* the tier-1 entry getFromCache read
      lookupAt |-> NoTimestamp,  \* Date.now() in getCacheMetadata
      staticAt |-> NoTimestamp,  \* Date.now() when the snapshot's age was taken
      idbReads |-> 0,
      snapFetches |-> 0,
      apiRequests |-> 0,
      listings |-> 0,
      snapFailed |-> FALSE,
      apiFailed |-> FALSE,
      liveAttempted |-> FALSE,
      freshAtStart |-> FALSE,
      prevOk |-> Null ]

Tx(op, caller, entry) == [op |-> op, caller |-> caller, entry |-> entry]

\* the page as its useState calls set it up
InitialPage ==
    [ students |-> Arr(<<>>),
      loading |-> FALSE,
      error |-> "",                  \* null
      cacheTimestamp |-> NoTimestamp, \* null
      cacheSource |-> "null" ]

\* requests the results worker receives
NumRequests == 2

Requests == 1..NumRequests

\* a request the results worker has not received
IdleRequest ==
    [ pc |-> "none",
      result |-> Null,           \* await request.json()
      method |-> "",             \* request.method
      currentContent |-> <<>>,   \* quiz-results.json as the handler read it
      status |-> 0,              \* status of the Response, 0 before
      error |-> "" ]             \* error of the Response's body

\* a nullable string of the login page: Null, or the string
Str(s) == [string |-> s]

\* the login page in a new tab: empty sessionStorage and localStorage,
\* handleCallback not called
SignedOut ==
    [ oauth_state |-> Null,      \* sessionStorage.getItem('oauth_state')
      gh_token |-> Null,         \* localStorage.getItem('gh_token')
      gh_user |-> Null,          \* localStorage.getItem('gh_user')
      pc |-> "idle",
      code |-> Null,             \* urlParams.get('code')
      state |-> Null,            \* urlParams.get('state')
      savedState |-> Null,       \* savedState as handleCallback read it
      token |-> Null,            \* result of exchangeCodeForToken
      error |-> "",              \* message of the Error handleCallback threw
      accepted |-> Null,         \* state of the callback that passed the check last
      exchanges |-> 0 ]          \* requests to CONFIG.OAUTH_PROXY_URL so far

\* the quiz site and the login page untouched
WebIdle ==
    /\ gist = <<>>
    /\ worker = [r \in Requests |-> IdleRequest]
    /\ quiz = Null
    /\ auth = SignedOut

\* nothing under study beside the calls of GitHubClassroomAPI
StudyIdle ==
    /\ input = Null
    /\ output = Null
    /\ page = InitialPage
    /\ WebIdle

\* tier-1 entries a previous session can have left behind
InitialEntries ==
    { Null,
      CacheEntry(Arr(getAllStudentsFromAPI(GitHubB,
                        assignmentRepos(Listing(GitHubB)), {}, {})),
                 StartTime - (INDEXEDDB_TTL - 1), INDEXEDDB_TTL),
      CacheEntry(ForeignStudents, StartTime - 1, INDEXEDDB_TTL) }

\* snapshots the site can be serving when the behaviour starts
InitialSnapshots ==
    { Snapshot(Null, Null),
      Snapshot(Arr(batchGetAllStudents(GitHubA)),
               StaticCacheMetadata(StartTime - (STATIC_CACHE_MAX_AGE - 1),
                                   batchGetAllStudents(GitHubA))),
      Snapshot(ForeignStudents,
               StaticCacheMetadata(StartTime - 1, ForeignStudents.array)),
      Snapshot([error |-> "Not Found"], StaticCacheMetadata(StartTime - 1, <<>>)) }

TierInit ==
    /\ now = StartTime
    /\ ticks = 0
    /\ github = Worlds[1]
    /\ snapshot \in InitialSnapshots
    /\ batchRuns = 0
    /\ idb \in InitialEntries
    /\ txq = <<>>
    /\ call = [c \in Callers |-> IdleCall]
    /\ calls = 0
    /\ lastOk = Null

\* the tier variables of a specification that only exercises the reducer
TierIdle ==
    /\ now = StartTime
    /\ ticks = 0
    /\ github = GitHubA
    /\ snapshot = Snapshot(Null, Null)
    /\ batchRuns = 0
    /\ idb = Null
    /\ txq = <<>>
    /\ call = [c \in Callers |-> IdleCall]
    /\ calls = 0
    /\ lastOk = Null

\* ------------------------------------------------------------------------
\* getAllStudents and forceSync of the dashboard's GitHubClassroomAPI, one
\* action per point where the call waits for IndexedDB or for the network.
\* What runs between two such points runs in one step.
\* ------------------------------------------------------------------------

\* private readonly CACHE_TTL = 5 * 60 * 1000
CACHE_TTL == 5 * 60 * 1000

Set(c, rec) == [call EXCEPT ![c] = rec]

\* detail requests the fan-out issues: two per repository that resolves
DetailRequests(repos) ==
    2 * Cardinality({i \in DOMAIN repos : parseAssignmentName(repos[i].name) # NoStr})

\* requests of the listing loop: pages of PER_PAGE until an empty page
ListingPages(org) ==
    (Len(org) + PER_PAGE - 1) \div PER_PAGE + 1

\* entering getAllStudentsFromAPI: getOrganizationRepos answers from
\* this.cache when it holds a listing younger than CACHE_TTL, else it lists
BeginLive(rec, at) ==
    IF rec.cache # Null /\ at - rec.cache.timestamp < CACHE_TTL
    THEN [rec EXCEPT !.liveAttempted = TRUE,
                     !.repos = rec.cache.data,
                     !.apiRequests = @ + DetailRequests(rec.cache.data),
                     !.pc = "fetchDetails"]
    ELSE [rec EXCEPT !.liveAttempted = TRUE,
                     !.listings = @ + 1,
                     !.pc = "listRepos"]

\* the call resolves
Resolve(rec, result, source, timestamp) ==
    [rec EXCEPT !.pc = "done",
                !.result = result,
                !.lastDataSource = source,
                !.lastSyncTimestamp = timestamp]

\* what lastOk keeps of a call that resolved
Returned(result, entry) ==
    [ result |-> result,
      returnedAt |-> now,
      writtenAt |-> IF entry = Null THEN NoTimestamp ELSE entry.timestamp ]

\* an entry getAllStudents would answer from at time at
FreshValid(entry, at) ==
    /\ entry # Null
    /\ at - entry.timestamp < INDEXEDDB_TTL
    /\ at <= entry.expiresAt
    /\ validateStudentsArray(entry.data)

\* getAllStudents is called: getFromCache opens its read transaction
StartGetAllStudents(c) ==
    /\ call[c].pc = "idle"
    /\ calls < MaxCalls
    /\ calls' = calls + 1
    /\ call' = Set(c, [IdleCall EXCEPT !.kind = "getAllStudents",
                                        !.pc = "getFromCache",
                                        !.idbReads = 1,
                                        !.freshAtStart = FreshValid(idb, now),
                                        !.prevOk = lastOk])
    /\ txq' = Append(txq, Tx("get", c, Null))
    /\ UNCHANGED <<now, ticks, github, snapshot, batchRuns, idb, lastOk>>

\* a forceSync that consults tier 1 first, as getAllStudents does
StartForceSyncCached(c) ==
    /\ call[c].pc = "idle"
    /\ calls < MaxCalls
    /\ calls' = calls + 1
    /\ call' = Set(c, [IdleCall EXCEPT !.kind = "forceSync",
                                        !.pc = "getFromCache",
                                        !.idbReads = 1,
                                        !.freshAtStart = FreshValid(idb, now),
                                        !.prevOk = lastOk])
    /\ txq' = Append(txq, Tx("get", c, Null))
    /\ UNCHANGED <<now, ticks, github, snapshot, batchRuns, idb, lastOk>>

\* forceSync is called: straight to getAllStudentsFromAPI
StartForceSync(c) ==
    /\ call[c].pc = "idle"
    /\ calls < MaxCalls
    /\ calls' = calls + 1
    /\ call' = Set(c, BeginLive([IdleCall EXCEPT !.kind = "forceSync",
                                                  !.freshAtStart = FreshValid(idb, now),
                                                  !.prevOk = lastOk], now))
    /\ UNCHANGED <<now, ticks, github, snapshot, batchRuns, idb, txq, lastOk>>

\* a getFromCache that checks the expiry only and hands out whatever is stored
getFromCacheUnchecked(entry, at) ==
    IF entry = Null THEN [data |-> Null, delete |-> FALSE]
    ELSE IF at > entry.expiresAt THEN [data |-> Null, delete |-> TRUE]
    ELSE [data |-> entry.data, delete |-> FALSE]

\* request.onsuccess of getFromCache: the data, or null for no entry, an
\* expired entry or an invalid one; the last two also call deleteFromCache
\* without waiting.  getAllStudents then calls getCacheMetadata.
getFromCache(entry, at) ==
    IF entry = Null THEN [data |-> Null, delete |-> FALSE]
    ELSE IF at > entry.expiresAt THEN [data |-> Null, delete |-> TRUE]
    ELSE IF ~ validateStudentsArray(entry.data) THEN [data |-> Null, delete |-> TRUE]
    ELSE [data |-> entry.data, delete |-> FALSE]

IdbGet(c) ==
    /\ call[c].pc = "getFromCache"
    /\ txq # <<>> /\ Head(txq) = Tx("get", c, Null)
    /\ LET got == getFromCache(idb, now)
       IN  /\ txq' = Tail(txq)
                     \o (IF got.delete THEN <<Tx("delete", 0, Null)>> ELSE <<>>)
                     \o <<Tx("meta", c, Null)>>
           /\ call' = Set(c, [call[c] EXCEPT !.pc = "getCacheMetadata",
                                              !.cached = got.data,
                                              !.seen = idb,
                                              !.idbReads = @ + 1])
    /\ UNCHANGED <<now, ticks, github, snapshot, batchRuns, idb, calls, lastOk>>

\* the transaction of deleteFromCache runs
IdbDelete ==
    /\ txq # <<>> /\ Head(txq).op = "delete"
    /\ txq' = Tail(txq)
    /\ idb' = Null
    /\ UNCHANGED <<now, ticks, github, snapshot, batchRuns, call, calls, lastOk>>

\* request.onsuccess of getCacheMetadata
getCacheMetadata(entry, at) ==
    IF entry = Null THEN Null
    ELSE [timestamp |-> entry.timestamp, age |-> at - entry.timestamp,
          expiresAt |-> entry.expiresAt]

\* a tier-1 decision that takes the age against the TTL of the in-memory
\* repository list
Tier1HitWithinCacheTtl(cached, metadata) ==
    cached # Null /\ metadata # Null /\ metadata.age < CACHE_TTL

\* the tier-1 decision of getAllStudents
Tier1Hit(cached, metadata) ==
    cached # Null /\ metadata # Null /\ metadata.age < INDEXEDDB_TTL

\* getCacheMetadata answers: return the cached students, or go on to
\* fetchStaticCache
IdbMeta(c) ==
    /\ call[c].pc = "getCacheMetadata"
    /\ txq # <<>> /\ Head(txq) = Tx("meta", c, Null)
    /\ txq' = Tail(txq)
    /\ LET metadata == getCacheMetadata(idb, now)
           rec == [call[c] EXCEPT !.lookupAt = now]
       IN  IF Tier1Hit(rec.cached, metadata)
           THEN /\ call' = Set(c, Resolve(rec, rec.cached, "indexeddb",
                                          metadata.timestamp))
                /\ lastOk' = Returned(rec.cached, idb)
           ELSE /\ call' = Set(c, [rec EXCEPT !.pc = "fetchStaticCache",
                                              !.snapFetches = @ + 1])
                /\ lastOk' = lastOk
    /\ UNCHANGED <<now, ticks, github, snapshot, batchRuns, idb, calls>>

\* fetchStaticCacheMetadata: null when the fetch or the JSON parse throws
\* and when the response is not ok
fetchStaticCacheMetadata(file, outcome) ==
    IF outcome = "error" \/ file = Null THEN Null ELSE file

\* fetchStaticCacheStudents: as above, and null when the JSON is no array
fetchStaticCacheStudents(file, outcome) ==
    IF outcome = "error" \/ file = Null THEN Null
    ELSE IF "array" \notin DOMAIN file THEN Null
    ELSE file

\* fetchStaticCache: null unless both files were read
fetchStaticCache(snap, metadataOutcome, studentsOutcome) ==
    LET metadata == fetchStaticCacheMetadata(snap.metadata, metadataOutcome)
        students == fetchStaticCacheStudents(snap.students, studentsOutcome)
    IN  IF metadata = Null \/ students = Null THEN Null
        ELSE [students |-> students, metadata |-> metadata]

\* a tier-2 decision that still accepts a snapshot of exactly the maximum age
Tier2FreshInclusive(staticData, at) ==
    at - staticData.metadata.timestamp <= STATIC_CACHE_MAX_AGE

\* a tier-2 decision that takes the age against the TTL of tier 1
Tier2FreshWithinTtl1(staticData, at) ==
    at - staticData.metadata.timestamp < INDEXEDDB_TTL

\* the tier-2 decision of getAllStudents
Tier2Fresh(staticData, at) ==
    at - staticData.metadata.timestamp < STATIC_CACHE_MAX_AGE

\* fetchStaticCache answers.  A fresh snapshot is handed to saveToCache,
\* which throws on an invalid students array before it touches the store;
\* the catch of tier 2 then falls through to the live fetch, as do a missing
\* and a stale snapshot.
StaticFetched(c, metadataOutcome, studentsOutcome) ==
    /\ call[c].pc = "fetchStaticCache"
    /\ LET staticData == fetchStaticCache(snapshot, metadataOutcome, studentsOutcome)
           rec == [call[c] EXCEPT !.staticData = staticData,
                                  !.staticAt = now,
                                  !.snapFailed = (staticData = Null)]
       IN  IF staticData # Null /\ Tier2Fresh(staticData, now)
                /\ validateStudentsArray(staticData.students)
           THEN /\ call' = Set(c, [rec EXCEPT !.pc = "saveStatic"])
                /\ txq' = Append(txq, Tx("put", c,
                              CacheEntry(staticData.students, now, INDEXEDDB_TTL)))
           ELSE /\ call' = Set(c, BeginLive(rec, now))
                /\ txq' = txq
    /\ UNCHANGED <<now, ticks, github, snapshot, batchRuns, idb, calls, lastOk>>

\* a listing that is started over when one of its requests fails
ReposListedRetry(c, failAt) ==
    /\ call[c].pc = "listRepos"
    /\ failAt \in 0..ListingPages(github)
    /\ IF failAt # 0
       THEN /\ call[c].listings < 3
            /\ call' = Set(c, [call[c] EXCEPT !.listings = @ + 1,
                                               !.apiRequests = @ + failAt])
       ELSE LET repos == assignmentRepos(Listing(github))
            IN  call' = Set(c, [call[c] EXCEPT
                            !.pc = "fetchDetails",
                            !.repos = repos,
                            !.cache = [data |-> repos, timestamp |-> now],
                            !.apiRequests = @ + ListingPages(github)
                                              + DetailRequests(repos)])
    /\ UNCHANGED <<now, ticks, github, snapshot, batchRuns, idb, txq, calls, lastOk>>

\* the listing of getOrganizationRepos answers: failAt = 0 when every page
\* was read, else the page whose request failed, which rejects the call.
\* On success the listing is filtered and kept in this.cache, and the
\* detail requests of the fan-out are issued.
ReposListed(c, failAt) ==
    /\ call[c].pc = "listRepos"
    /\ failAt \in 0..ListingPages(github)
    /\ IF failAt # 0
       THEN call' = Set(c, [call[c] EXCEPT !.pc = "failed",
                                            !.error = "GitHub API error",
                                            !.apiFailed = TRUE,
                                            !.apiRequests = @ + failAt])
       ELSE LET repos == assignmentRepos(Listing(github))
            IN  call' = Set(c, [call[c] EXCEPT
                            !.pc = "fetchDetails",
                            !.repos = repos,
                            !.cache = [data |-> repos, timestamp |-> now],
                            !.apiRequests = @ + ListingPages(github)
                                              + DetailRequests(repos)])
    /\ UNCHANGED <<now, ticks, github, snapshot, batchRuns, idb, txq, calls, lastOk>>

\* a live fetch that resolves without handing its result to saveToCache
LiveFetchedUnsaved(c, rec) ==
    /\ call' = Set(c, Resolve(rec, rec.liveData, "live-api", now))
    /\ txq' = txq
    /\ lastOk' = Returned(rec.liveData, idb)

\* the detail requests have settled (those in failedWorkflow / failedCommit
\* with an error): the students are built and handed to saveToCache.  A
\* throw of saveToCache is caught and logged, the call resolves all the same.
LiveFetched(c, rec) ==
    IF validateStudentsArray(rec.liveData)
    THEN /\ call' = Set(c, [rec EXCEPT !.pc = "saveLive"])
         /\ txq' = Append(txq, Tx("put", c,
                       CacheEntry(rec.liveData, now, INDEXEDDB_TTL)))
         /\ lastOk' = lastOk
    ELSE /\ call' = Set(c, Resolve(rec, rec.liveData, "live-api", now))
         /\ txq' = txq
         /\ lastOk' = Returned(rec.liveData, idb)

DetailsFetched(c, failedWorkflow, failedCommit) ==
    /\ call[c].pc = "fetchDetails"
    /\ LiveFetched(c, [call[c] EXCEPT !.liveData =
                          Arr(getAllStudentsFromAPI(github, call[c].repos,
                                                    failedWorkflow, failedCommit))])
    /\ UNCHANGED <<now, ticks, github, snapshot, batchRuns, idb, calls>>

\* a saveToCache that uses store.add: an entry that is there is kept
IdbAdd(c) ==
    /\ call[c].pc \in {"saveStatic", "saveLive"}
    /\ txq # <<>> /\ Head(txq).op = "put" /\ Head(txq).caller = c
    /\ txq' = Tail(txq)
    /\ idb' = IF idb = Null THEN Head(txq).entry ELSE idb
    /\ LET rec == call[c]
           resolved ==
               IF rec.pc = "saveStatic"
               THEN Resolve(rec, rec.staticData.students, "static-cache",
                            rec.staticData.metadata.timestamp)
               ELSE Resolve(rec, rec.liveData, "live-api", now)
       IN  /\ call' = Set(c, resolved)
           /\ lastOk' = Returned(resolved.result, idb')
    /\ UNCHANGED <<now, ticks, github, snapshot, batchRuns, calls>>

\* request.onsuccess of the put of saveToCache: the entry is stored and the
\* call that waited for it resolves
IdbPut(c) ==
    /\ call[c].pc \in {"saveStatic", "saveLive"}
    /\ txq # <<>> /\ Head(txq).op = "put" /\ Head(txq).caller = c
    /\ txq' = Tail(txq)
    /\ idb' = Head(txq).entry
    /\ LET rec == call[c]
           resolved ==
               IF rec.pc = "saveStatic"
               THEN Resolve(rec, rec.staticData.students, "static-cache",
                            rec.staticData.metadata.timestamp)
               ELSE Resolve(rec, rec.liveData, "live-api", now)
       IN  /\ call' = Set(c, resolved)
           /\ lastOk' = Returned(resolved.result, idb')
    /\ UNCHANGED <<now, ticks, github, snapshot, batchRuns, calls>>

\* the caller has taken the outcome; its next call uses a new instance
Ack(c) ==
    /\ call[c].pc \in {"done", "failed"}
    /\ call' = Set(c, IdleCall)
    /\ UNCHANGED <<now, ticks, github, snapshot, batchRuns, idb, txq, calls, lastOk>>

\* ------------------------------------------------------------------------
\* The environment: the clock, GitHub, the offline batch script
\* ------------------------------------------------------------------------

Tick(d) ==
    /\ ticks < MaxTicks
    /\ ticks' = ticks + 1
    /\ now' = now + d
    /\ UNCHANGED <<github, snapshot, batchRuns, idb, txq, call, calls, lastOk>>

\* students push, workflows finish: the organization moves on to a later world
GitHubChanges(world) ==
    /\ \E i \in DOMAIN Worlds : Worlds[i] = github /\ i < Len(Worlds)
                                   /\ world = Worlds[i + 1]
    /\ github' = world
    /\ UNCHANGED <<now, ticks, snapshot, batchRuns, idb, txq, call, calls, lastOk>>

RECURSIVE BatchOutputs(_)
BatchOutputs(worlds) ==
    IF worlds = <<>> THEN <<>>
    ELSE <<batchGetAllStudents(Head(worlds))>> \o BatchOutputs(Tail(worlds))

\* what the batch script computes in each world
batchOutput == BatchOutputs(Worlds)

\* main() of fetch-students-data.js writes students.json and metadata.json
BatchRun ==
    /\ batchRuns < MaxBatchRuns
    /\ batchRuns' = batchRuns + 1
    /\ \E i \in DOMAIN Worlds :
          /\ Worlds[i] = github
          /\ snapshot' = Snapshot(Arr(batchOutput[i]),
                                  StaticCacheMetadata(now, batchOutput[i]))
    /\ UNCHANGED <<now, ticks, github, idb, txq, call, calls, lastOk>>

\* ------------------------------------------------------------------------
\* The dashboard session: one load at a time (loadStudentsFromGitHub of
\* page.tsx, on mount and on the Sync button), each on a new
\* GitHubClassroomAPI
\* ------------------------------------------------------------------------

NoCallInProgress == \A c \in Callers : call[c].pc = "idle"

Init ==
    /\ rAssignments = <<>>
    /\ rStudent = Null
    /\ StudyIdle
    /\ TierInit

Next ==
    \/ \E c \in Callers :
          NoCallInProgress /\ StartGetAllStudents(c) /\ UNCHANGED reduceVars
    \/ \E c \in Callers :
          NoCallInProgress /\ StartForceSync(c) /\ UNCHANGED reduceVars
    \/ \E c \in Callers : IdbGet(c) /\ UNCHANGED reduceVars
    \/ IdbDelete /\ UNCHANGED reduceVars
    \/ \E c \in Callers : IdbMeta(c) /\ UNCHANGED reduceVars
    \/ \E c \in Callers, metadataOutcome, studentsOutcome \in {"ok", "error"} :
          StaticFetched(c, metadataOutcome, studentsOutcome) /\ UNCHANGED reduceVars
    \/ \E c \in Callers, failAt \in 0..1 :
          ReposListed(c, failAt) /\ UNCHANGED reduceVars
    \/ \E c \in Callers : DetailsFetched(c, {}, {}) /\ UNCHANGED reduceVars
    \/ \E c \in Callers : IdbPut(c) /\ UNCHANGED reduceVars
    \/ \E c \in Callers : Ack(c) /\ UNCHANGED reduceVars
    \/ \E d \in TickSteps : Tick(d) /\ UNCHANGED reduceVars
    \/ \E world \in Range(Worlds) : GitHubChanges(world) /\ UNCHANGED reduceVars
    \/ BatchRun /\ UNCHANGED reduceVars

Spec == Init /\ [][Next]_vars

\* ------------------------------------------------------------------------
\* The reducer on its own: calculateCompletedCount and the student summary
\* applied to lists of assignment results
\* ------------------------------------------------------------------------

\* one Assignment as getAllStudentsFromAPI builds it
Result(name, status) ==
    [ name |-> name,
      repoName |-> <<OrgPrefix>> \o name \o <<"alice">>,
      status |-> status,
      lastCommitDate |-> 1 ]

FirstName(entry) ==
    IF entry.type = "required" THEN entry.name ELSE entry.options[1]

HasSecondName(entry) ==
    entry.type = "choice" \/ entry.alternativeNames # <<>>

SecondName(entry) ==
    IF entry.type = "required" THEN entry.alternativeNames[1] ELSE entry.options[2]

\* what a student can have for one course entry
Patterns ==
    {"absent", "first", "second", "both", "firstFailed", "secondFailed", "running"}

PatternsOf(entry) ==
    IF HasSecondName(entry) THEN Patterns
    ELSE {"absent", "first", "firstFailed", "running"}

ResultsOf(entry, pattern) ==
    CASE pattern = "absent" -> <<>>
      [] pattern = "first" -> <<Result(FirstName(entry), "success")>>
      [] pattern = "second" -> <<Result(SecondName(entry), "success")>>
      [] pattern = "both" -> <<Result(FirstName(entry), "success"),
                               Result(SecondName(entry), "success")>>
      [] pattern = "firstFailed" -> <<Result(FirstName(entry), "failure")>>
      [] pattern = "secondFailed" -> <<Result(FirstName(entry), "success"),
                                       Result(SecondName(entry), "failure")>>
      [] pattern = "running" -> <<Result(FirstName(entry), "in_progress")>>

Entries == DOMAIN CS50_ASSIGNMENTS

\* every entry as the base says, but for at most MaxDeviations entries
Plans ==
    { plan \in UNION { UNION { { [e \in Entries |-> IF e \in D THEN f[e] ELSE base]
                                 : f \in [D -> Patterns] }
                               : D \in { S \in SUBSET Entries :
                                           Cardinality(S) <= MaxDeviations } }
                       : base \in {"absent", "first"} } :
        \A e \in Entries : plan[e] \in PatternsOf(CS50_ASSIGNMENTS[e]) }

RECURSIVE AssignmentsOf(_, _)
AssignmentsOf(plan, e) ==
    IF e > Len(CS50_ASSIGNMENTS) THEN <<>>
    ELSE ResultsOf(CS50_ASSIGNMENTS[e], plan[e]) \o AssignmentsOf(plan, e + 1)

ReduceInit ==
    /\ rAssignments \in {AssignmentsOf(plan, 1) : plan \in Plans}
    /\ rStudent = Null
    /\ StudyIdle
    /\ TierIdle

\* the student object is built from the list
Reduce ==
    /\ rStudent = Null
    /\ rStudent' = BuildStudent(<<"alice">>, "org", rAssignments)
    /\ UNCHANGED <<rAssignments, input, output, page, gist, worker, quiz, auth>>
    /\ UNCHANGED tierVars

SpecReduce == ReduceInit /\ [][Reduce]_vars

\* ------------------------------------------------------------------------
\* Properties of the reducer (SpecReduce)
\* ------------------------------------------------------------------------

\* the names under which a result counts for a course entry
NamesOf(entry) ==
    IF entry.type = "required"
    THEN {entry.name} \cup Range(entry.alternativeNames)
    ELSE Range(entry.options)

\* some result of the list is a success for the entry
EntrySucceeded(entry, assignments) ==
    \E i \in DOMAIN assignments :
        /\ assignments[i].status = "success"
        /\ assignments[i].name \in NamesOf(entry)

AnyFailure(assignments) ==
    \E i \in DOMAIN assignments : assignments[i].status = "failure"

\* C1: for every list of assignment results calculateCompletedCount lies
\* between 0 and the number of course entries (14), and it is 14 exactly
\* when every required entry (under its canonical or an alternative name)
\* and at least one option of every choice group has a successful result.
C1_CompletedCountBounded ==
    rStudent # Null =>
        /\ rStudent.completedCount = calculateCompletedCount(rAssignments)
        /\ rStudent.completedCount \in 0..Len(CS50_ASSIGNMENTS)
        /\ Len(CS50_ASSIGNMENTS) = 14
        /\ rStudent.completedCount = 14
              <=> \A e \in Entries : EntrySucceeded(CS50_ASSIGNMENTS[e], rAssignments)

\* every entry is complete and a choice group has both options successful,
\* so that the list holds more than 14 successes
C1_Witness ==
    /\ rStudent # Null
    /\ rStudent.completedCount = 14
    /\ Cardinality({i \in DOMAIN rAssignments :
                        rAssignments[i].status = "success"}) > 14

\* C3: the overall status is passed if and only if completedCount equals
\* totalAssignments, also when some result is a failure; otherwise it is
\* failed if and only if some result is a failure; otherwise in_progress.
C3_OverallStatus ==
    rStudent # Null =>
        /\ rStudent.status = "passed"
              <=> rStudent.completedCount = rStudent.totalAssignments
        /\ rStudent.completedCount # rStudent.totalAssignments =>
              (rStudent.status = "failed" <=> AnyFailure(rAssignments))
        /\ (rStudent.completedCount # rStudent.totalAssignments
              /\ ~ AnyFailure(rAssignments)) => rStudent.status = "in_progress"

\* a student who passed although one of their results is a failure
C3_Witness ==
    /\ rStudent # Null
    /\ rStudent.status = "passed"
    /\ AnyFailure(rAssignments)

\* ------------------------------------------------------------------------
\* Properties of the tiers (Spec): one dashboard session whose calls follow
\* one another, with an IndexedDB store that runs every transaction
\* ------------------------------------------------------------------------

\* the students of a payload whose completedCount is not what
\* calculateCompletedCount gives for their assignments
Miscounted(payload) ==
    {i \in DOMAIN payload.array :
        payload.array[i].completedCount
            # calculateCompletedCount(payload.array[i].assignments)}

\* C2: every Student record that getAllStudents returns, whichever tier
\* answered (tier 1, the snapshot written by the offline batch script, the
\* live fetch), carries the completedCount that the choice-group-aware
\* reducer gives for the record's assignments, never the plain number of
\* successful results.
C2_ReducerCount ==
    \A c \in Callers :
        (call[c].kind = "getAllStudents" /\ call[c].pc = "done")
            => Miscounted(call[c].result) = {}

\* C4: a getAllStudents call that finds in tier 1 a valid Student[] written
\* less than INDEXEDDB_TTL (30 minutes) before its tier-1 lookup returns that
\* very payload, reports the source indexeddb, and fetches neither the
\* snapshot nor anything from the GitHub API.
C4_Tier1RoundTrip ==
    \A c \in Callers :
        ( /\ call[c].kind = "getAllStudents"
          /\ call[c].lookupAt # NoTimestamp
          /\ call[c].seen # Null
          /\ validateStudentsArray(call[c].seen.data)
          /\ call[c].lookupAt - call[c].seen.timestamp < 30 * 60 * 1000 )
        => /\ call[c].pc = "done"
           /\ call[c].result = call[c].seen.data
           /\ call[c].lastDataSource = "indexeddb"
           /\ call[c].snapFetches = 0
           /\ call[c].apiRequests = 0
           /\ ~ call[c].liveAttempted

\* a call answered from the entry that the call before it wrote in this
\* session, one millisecond before the entry's 30 minutes are over
C4_Witness ==
    \E c \in Callers :
        /\ call[c].kind = "getAllStudents"
        /\ call[c].pc = "done"
        /\ call[c].lastDataSource = "indexeddb"
        /\ call[c].prevOk # Null
        /\ call[c].seen.timestamp = call[c].prevOk.writtenAt
        /\ call[c].seen.timestamp >= StartTime
        /\ call[c].lookupAt - call[c].seen.timestamp = 30 * 60 * 1000 - 1

C6_StaleSnapshotSkipped ==
    \A c \in Callers :
        ( /\ call[c].staticData # Null
          /\ call[c].staticAt - call[c].staticData.metadata.timestamp
                >= 2 * 60 * 60 * 1000 )
        => /\ call[c].liveAttempted
           /\ call[c].pc # "saveStatic"
           /\ call[c].lastDataSource # "static-cache"
           /\ call[c].pc = "done" =>
                 /\ call[c].lastDataSource = "live-api"
                 /\ call[c].result = call[c].liveData

\* a valid snapshot of exactly the maximum age was passed over
C6_Witness ==
    \E c \in Callers :
        /\ call[c].pc = "done"
        /\ call[c].staticData # Null
        /\ validateStudentsArray(call[c].staticData.students)
        /\ call[c].staticAt - call[c].staticData.metadata.timestamp
              = 2 * 60 * 60 * 1000

\* C7: what getAllStudents returns from tier 1 or from the snapshot passes
\* validateStudentsArray; an invalid tier-1 entry is deleted and the snapshot
\* is fetched, an invalid snapshot leads to the live fetch, and the only
\* error a call ends with is that of the live fetch.
C7_OnlyValidPayloads ==
    \A c \in Callers :
        /\ call[c].lastDataSource \in {"indexeddb", "static-cache"}
              => validateStudentsArray(call[c].result)
        /\ (call[c].seen # Null /\ ~ validateStudentsArray(call[c].seen.data))
              => /\ call[c].cached = Null
                 /\ call[c].lastDataSource # "indexeddb"
                 /\ call[c].pc # "getCacheMetadata" =>
                       (idb # call[c].seen /\ call[c].snapFetches = 1)
        /\ ( /\ call[c].staticData # Null
             /\ ~ validateStudentsArray(call[c].staticData.students) )
              => /\ call[c].liveAttempted
                 /\ call[c].lastDataSource # "static-cache"
                 /\ call[c].pc # "saveStatic"
        /\ call[c].pc = "failed"
              => (call[c].apiFailed /\ call[c].error = "GitHub API error")

\* a call that met an invalid tier-1 entry and an invalid snapshot and
\* returned live data
C7_Witness ==
    \E c \in Callers :
        /\ call[c].pc = "done"
        /\ call[c].lastDataSource = "live-api"
        /\ call[c].seen # Null
        /\ ~ validateStudentsArray(call[c].seen.data)
        /\ call[c].staticData # Null
        /\ ~ validateStudentsArray(call[c].staticData.students)
        /\ idb # Null /\ idb.data = call[c].result

\* the call was answered from tier 1 with the payload of the call before it
AnsweredFromTier1(c) ==
    /\ call[c].pc = "done"
    /\ call[c].lastDataSource = "indexeddb"
    /\ call[c].result = call[c].prevOk.result
    /\ call[c].snapFetches = 0
    /\ call[c].apiRequests = 0

C10_FailuresByTier ==
    \A c \in Callers :
        /\ call[c].snapFailed
              => /\ call[c].liveAttempted
                 /\ call[c].lastDataSource # "static-cache"
                 /\ call[c].pc = "failed" => call[c].apiFailed
        /\ call[c].apiFailed
              => /\ call[c].pc = "failed"
                 /\ call[c].error = "GitHub API error"
                 /\ call[c].result = Null
        /\ call[c].pc = "failed" => call[c].apiFailed
        /\ call[c].snapFetches <= 1
        /\ call[c].listings <= 1

\* a getAllStudents call whose snapshot fetch failed and whose listing
\* failed after it
C10_Witness ==
    \E c \in Callers :
        /\ call[c].kind = "getAllStudents"
        /\ call[c].snapFailed
        /\ call[c].pc = "failed"
        /\ call[c].listings = 1

\* ------------------------------------------------------------------------
\* The fan-out of the live fetch with failing detail requests (SpecFanOut)
\* ------------------------------------------------------------------------

\* nothing of the reducer's study
ReduceIdle ==
    /\ rAssignments = <<>>
    /\ rStudent = Null

\* the repositories whose detail requests the fan-out issues
RequestedNames(org) ==
    {r.name : r \in {x \in Range(assignmentRepos(Listing(org))) :
                        parseAssignmentName(x.name) # NoStr}}

\* the workflow-run requests and the commit requests that fail
FanOutInit ==
    /\ input \in {[failedWorkflow |-> fw, failedCommit |-> fc] :
                     fw \in SUBSET RequestedNames(GitHubA),
                     fc \in SUBSET RequestedNames(GitHubA)}
    /\ output = Null
    /\ page = InitialPage
    /\ WebIdle
    /\ ReduceIdle
    /\ TierIdle

\* getAllStudentsFromAPI runs on the listing
FanOut ==
    /\ output = Null
    /\ output' = Arr(getAllStudentsFromAPI(github, assignmentRepos(Listing(github)),
                                           input.failedWorkflow, input.failedCommit))
    /\ UNCHANGED <<rAssignments, rStudent, input, page, gist, worker, quiz, auth>>
    /\ UNCHANGED tierVars

SpecFanOut == FanOutInit /\ [][FanOut]_vars

\* the assignment results of a students array, each with its student
ResultsIn(students) ==
    UNION { {[username |-> students[i].username, result |-> students[i].assignments[j]] :
                j \in DOMAIN students[i].assignments} : i \in DOMAIN students }

\* the result a repository must show when only its own requests count
OwnResult(name, failedWorkflow, failedCommit) ==
    LET state == RepoState(github, name)
        workflow == IF name \in failedWorkflow THEN Null ELSE state.run
        commit == IF name \in failedCommit THEN Null ELSE state.commit
    IN  [ status |-> determineStatus(workflow, commit),
          lastCommitDate |-> IF commit = Null THEN NoDate ELSE commit.date ]

\* C11: when workflow-run requests and commit requests of some repositories
\* fail during the live fetch, the fetch still returns, every repository
\* that was asked about has exactly one result, and each result is what the
\* repository's own answers give with a failed workflow-run request read as
\* no workflow run and a failed commit request as no commit: the failures
\* of one repository change no other repository's result.
C11_FailedRequestIsLocal ==
    output # Null =>
        /\ \A name \in RequestedNames(github) :
              Cardinality({x \in ResultsIn(output.array) : x.result.repoName = name}) = 1
        /\ \A x \in ResultsIn(output.array) :
              /\ x.result.repoName \in RequestedNames(github)
              /\ x.username = extractUsernameFromRepo(x.result.repoName)
              /\ LET own == OwnResult(x.result.repoName, input.failedWorkflow,
                                      input.failedCommit)
                 IN  /\ x.result.status = own.status
                     /\ x.result.lastCommitDate = own.lastCommitDate

\* one repository's workflow-run request failed and another's commit request
\* failed, while a third repository still shows its success
C11_Witness ==
    /\ output # Null
    /\ input.failedWorkflow # {}
    /\ input.failedCommit # {}
    /\ input.failedWorkflow \cap input.failedCommit = {}
    /\ \E x \in ResultsIn(output.array) :
          /\ x.result.status = "success"
          /\ x.result.repoName \notin input.failedWorkflow \cup input.failedCommit
    /\ \E x \in ResultsIn(output.array) :
          /\ x.result.status = "no_tests"
          /\ x.result.repoName \in input.failedWorkflow
    /\ \E x \in ResultsIn(output.array) :
          /\ x.result.status = "not_started"
          /\ x.result.repoName \in input.failedCommit


\* ------------------------------------------------------------------------
\* The repository-name resolvers on their own (SpecResolver)
\* ------------------------------------------------------------------------

\* repository names: with and without the organization prefix, a known name,
\* an alternative name or an unknown first part, and what follows it
ResolverPrefixes == {<<>>, <<"nvnacs50">>, <<"NVNACS50">>}

ResolverNames ==
    { <<"hello">>, <<"Hello">>, <<"me">>, <<"mario", "less">>, <<"mario", "more">>,
      <<"Mario", "less">>, <<"cash">>, <<"filter", "less">>, <<"speller">>,
      <<"mario">>, <<"filter">>, <<"notes">> }

ResolverRests ==
    { <<>>, <<"">>, <<"alice">>, <<"Bob">>, <<"jean", "luc">>,
      <<"less", "alice">>, <<"me", "alice">> }

RepoNames ==
    {p \o n \o r : p \in ResolverPrefixes, n \in ResolverNames, r \in ResolverRests}

Answer(op, result) == [op |-> op, result |-> result]

ResolverInit ==
    /\ input \in {[repoName |-> n] : n \in RepoNames}
    /\ output = Null
    /\ page = InitialPage
    /\ WebIdle
    /\ ReduceIdle
    /\ TierIdle

ResolverStep(result) ==
    /\ output = Null
    /\ output' = result
    /\ UNCHANGED <<rAssignments, rStudent, input, page, gist, worker, quiz, auth>>
    /\ UNCHANGED tierVars

ParseName ==
    ResolverStep(Answer("parseAssignmentName", parseAssignmentName(input.repoName)))

ExtractUsername ==
    ResolverStep(Answer("extractUsernameFromRepo",
                        extractUsernameFromRepo(input.repoName)))

BatchParseName ==
    ResolverStep(Answer("batch parseAssignmentName",
                        batchParseAssignmentName(input.repoName)))

BatchExtractUsername ==
    ResolverStep(Answer("batch extractUsernameFromRepo",
                        batchExtractUsernameFromRepo(input.repoName)))

ResolverNext ==
    \/ ParseName
    \/ ExtractUsername
    \/ BatchParseName
    \/ BatchExtractUsername

SpecResolver == ResolverInit /\ [][ResolverNext]_vars

\* the repository name in lower case without the organization prefix
Remainder == StripOrg(ToLowerCase(input.repoName))

\* name is the whole of s, or leads s and is followed by a hyphen
WholeOrBeforeDash(name, s) ==
    \/ s = name
    \/ \E k \in 1..Len(s) - 1 : SubSeq(s, 1, k) = name

\* the known names of the dashboard's course definition with their canonical
\* ids, in no order
KnownNames ==
    UNION {IF e.type = "required"
           THEN {[name |-> e.name, canonical |-> e.name]}
                \cup {[name |-> a, canonical |-> e.name] :
                         a \in Range(e.alternativeNames)}
           ELSE {[name |-> o, canonical |-> o] : o \in Range(e.options)}
           : e \in Range(CS50_ASSIGNMENTS)}

\* the same for the batch script's flat list
BatchKnownNames ==
    UNION {{[name |-> e.name, canonical |-> e.name]}
           \cup {[name |-> a, canonical |-> e.name] : a \in Range(e.alternativeNames)}
           : e \in Range(BATCH_CS50_ASSIGNMENTS)}

\* the known names that match s, and the longest of them
Matching(known, s) == {p \in known : WholeOrBeforeDash(p.name, s)}

Longest(matching) ==
    {p \in matching : \A q \in matching : StrLen(q.name) <= StrLen(p.name)}

\* C12: whenever a known assignment name is the whole remainder of the
\* repository name or leads it followed by '-', parseAssignmentName (the
\* dashboard's and the batch script's) returns the canonical id of the
\* longest such name, which is a function of the repository name alone;
\* <org>-mario-less-<user> resolves to mario-less.
C12_LongestKnownName ==
    /\ (output # Null /\ output.op = "parseAssignmentName"
         /\ Matching(KnownNames, Remainder) # {})
        => /\ \A p \in Longest(Matching(KnownNames, Remainder)) :
                  output.result = p.canonical
           /\ (Len(Remainder) >= 3 /\ SubSeq(Remainder, 1, 2) = <<"mario", "less">>)
                  => output.result = <<"mario", "less">>
    /\ (output # Null /\ output.op = "batch parseAssignmentName"
         /\ Matching(BatchKnownNames, Remainder) # {})
        => /\ \A p \in Longest(Matching(BatchKnownNames, Remainder)) :
                  output.result = p.canonical
           /\ (Len(Remainder) >= 3 /\ SubSeq(Remainder, 1, 2) = <<"mario", "less">>)
                  => output.result = <<"mario", "less">>

\* NVNACS50-Mario-less-jean-luc has been resolved to mario-less
C12_Witness ==
    /\ input # Null
    /\ input.repoName = <<"NVNACS50", "Mario", "less", "jean", "luc">>
    /\ output # Null
    /\ output.op = "parseAssignmentName"
    /\ output.result = <<"mario", "less">>


\* C13: when the repository name without the organization prefix is a known
\* assignment name or alternative name, a '-' and a non-empty rest,
\* extractUsernameFromRepo returns that rest in lower case with its inner
\* hyphens; and it returns none whenever parseAssignmentName returns none
\* for the same repository name.
C13_UsernameIsRest ==
    (output # Null /\ output.op = "extractUsernameFromRepo")
    => /\ \A p \in KnownNames : \A k \in 1..Len(Remainder) - 1 :
              (/\ SubSeq(Remainder, 1, k) = p.name
               /\ SubSeq(Remainder, k + 1, Len(Remainder)) # <<"">>)
              => output.result = SubSeq(Remainder, k + 1, Len(Remainder))
       /\ parseAssignmentName(input.repoName) = NoStr => output.result = NoStr

\* nvnacs50-me-Bob has given bob, and me-jean-luc has given jean-luc
C13_Witness ==
    /\ output # Null
    /\ output.op = "extractUsernameFromRepo"
    /\ \/ input.repoName = <<"nvnacs50", "me", "Bob">> /\ output.result = <<"bob">>
       \/ /\ input.repoName = <<"me", "jean", "luc">>
          /\ output.result = <<"jean", "luc">>


\* C14: when no known assignment name matches the repository name without
\* its organization prefix, parseAssignmentName returns the first
\* '-'-delimited segment if there are at least two segments, and none if
\* there are fewer.
C14_FirstSegmentFallback ==
    (/\ output # Null
     /\ output.op = "parseAssignmentName"
     /\ Matching(KnownNames, Remainder) = {})
    => output.result = IF Len(Remainder) >= 2 THEN <<Remainder[1]>> ELSE NoStr


\* the listed repositories whose name matches a known assignment name
KnownRepos(org) ==
    {r.name : r \in {x \in Range(Listing(org)) :
                        Matching(KnownNames, StripOrg(ToLowerCase(x.name))) # {}}}

\* C15: the live fetch returns, no assignment result comes from a repository
\* whose name matches no known assignment, and every student record holds a
\* result of a repository with a known assignment name, so that no record
\* was created by an unknown repository.
C15_UnknownRepositoryExcluded ==
    output # Null =>
        /\ \A x \in ResultsIn(output.array) : x.result.repoName \in KnownRepos(github)
        /\ \A i \in DOMAIN output.array :
              \E j \in DOMAIN output.array[i].assignments :
                 output.array[i].assignments[j].repoName \in KnownRepos(github)
        /\ \A r \in Range(Listing(github)) :
              r.name \notin KnownRepos(github)
              => \A i \in DOMAIN output.array :
                    output.array[i].username # SubSeq(r.name, Len(r.name), Len(r.name))

\* the fetch has returned students although the listing holds a repository
\* of two or more parts that matches no known assignment
C15_Witness ==
    /\ output # Null
    /\ output.array # <<>>
    /\ \E r \in Range(Listing(github)) :
          /\ r.name \notin KnownRepos(github)
          /\ Len(StripOrg(ToLowerCase(r.name))) >= 2


\* ------------------------------------------------------------------------
\* determineStatus on its own (SpecStatus)
\* ------------------------------------------------------------------------

\* workflow runs as the API returns them: status, conclusion ("" for null)
\* and fields determineStatus does not read
RunStatuses == {"queued", "in_progress", "completed", "waiting"}

RunConclusions == {"", "success", "failure", "cancelled", "timed_out"}

WorkflowRuns ==
    {[status |-> st, conclusion |-> co, id |-> n] :
        st \in RunStatuses, co \in RunConclusions, n \in {1, 2}}

Commits == {[date |-> d] : d \in {1, 2}}

StatusInit ==
    /\ input \in {[workflow |-> w, commit |-> c] :
                     w \in WorkflowRuns \cup {Null}, c \in Commits \cup {Null}}
    /\ output = Null
    /\ page = InitialPage
    /\ WebIdle
    /\ ReduceIdle
    /\ TierIdle

DetermineStatus ==
    /\ output = Null
    /\ output' = Answer("determineStatus", determineStatus(input.workflow, input.commit))
    /\ UNCHANGED <<rAssignments, rStudent, input, page, gist, worker, quiz, auth>>
    /\ UNCHANGED tierVars

SpecStatus == StatusInit /\ [][DetermineStatus]_vars

\* C16: the status is decided by whether a commit exists, whether a run
\* exists, the run's status and the run's conclusion, in this order: no
\* commit gives not_started even with a run; a commit and no run gives
\* no_tests; a run in_progress or queued gives in_progress whatever its
\* conclusion; otherwise success if the conclusion is success and failure
\* if it is anything else.
C16_StatusOrder ==
    (output # Null /\ output.op = "determineStatus")
    => /\ input.commit = Null => output.result = "not_started"
       /\ (input.commit # Null /\ input.workflow = Null)
             => output.result = "no_tests"
       /\ (input.commit # Null /\ input.workflow # Null)
             => /\ input.workflow.status \in {"in_progress", "queued"}
                      => output.result = "in_progress"
                /\ (input.workflow.status \notin {"in_progress", "queued"}
                    /\ input.workflow.conclusion = "success")
                      => output.result = "success"
                /\ (input.workflow.status \notin {"in_progress", "queued"}
                    /\ input.workflow.conclusion # "success")
                      => output.result = "failure"

\* not_started for a repository without a commit whose run succeeded, and
\* in_progress for a queued run that carries the conclusion success
C16_Witness ==
    /\ output # Null
    /\ output.op = "determineStatus"
    /\ \/ /\ input.commit = Null
          /\ input.workflow # Null
          /\ input.workflow.conclusion = "success"
          /\ output.result = "not_started"
       \/ /\ input.commit # Null
          /\ input.workflow # Null
          /\ input.workflow.status = "queued"
          /\ input.workflow.conclusion = "success"
          /\ output.result = "in_progress"


\* ------------------------------------------------------------------------
\* One more successful option for a choice group (SpecChoice)
\* ------------------------------------------------------------------------

\* the choice groups of which the list holds a successful option
CompletedGroups(assignments) ==
    {e \in Entries :
        /\ CS50_ASSIGNMENTS[e].type = "choice"
        /\ Range(CS50_ASSIGNMENTS[e].options) \cap SuccessfulNames(assignments) # {}}

ChoiceInit ==
    /\ rAssignments \in {AssignmentsOf(plan, 1) : plan \in Plans}
    /\ rStudent = Null
    /\ StudyIdle
    /\ TierIdle

\* the count is taken, a successful result for another option of a completed
\* group joins the list, and the count is taken again
AddOption(e, opt, done) ==
    /\ output = Null
    /\ e \in CompletedGroups(rAssignments)
    /\ opt \in Range(CS50_ASSIGNMENTS[e].options)
    /\ done \in Range(CS50_ASSIGNMENTS[e].options) \cap SuccessfulNames(rAssignments)
    /\ opt # done
    /\ rAssignments' = Append(rAssignments, Result(opt, "success"))
    /\ input' = [assignments |-> rAssignments, group |-> e, added |-> opt, had |-> done]
    /\ output' = Answer("calculateCompletedCount",
                        [ before |-> calculateCompletedCount(rAssignments),
                          after |-> calculateCompletedCount(rAssignments') ])
    /\ UNCHANGED <<rStudent, page, gist, worker, quiz, auth>>
    /\ UNCHANGED tierVars

ChoiceNext ==
    \E e \in Entries : \E opt, done \in Range(CS50_ASSIGNMENTS[e].options) :
        AddOption(e, opt, done)

SpecChoice == ChoiceInit /\ [][ChoiceNext]_vars

\* C17: when a list that holds a successful option of a choice group gets a
\* successful result for another option of the same group, completedCount
\* stays what it was.
C17_SecondOptionAddsNothing ==
    (output # Null /\ output.op = "calculateCompletedCount")
    => output.result.after = output.result.before

\* mario-more was added to a list whose only success was mario-less, and the
\* count stayed 1
C17_Witness ==
    /\ output # Null
    /\ output.op = "calculateCompletedCount"
    /\ input.had = <<"mario", "less">>
    /\ input.added = <<"mario", "more">>
    /\ SuccessfulNames(input.assignments) = {<<"mario", "less">>}
    /\ SuccessfulNames(rAssignments) = {<<"mario", "less">>, <<"mario", "more">>}
    /\ output.result.before = 1
    /\ output.result.after = 1


\* ------------------------------------------------------------------------
\* batchPromises under the detail requests of the live fetch (SpecBatches)
\* ------------------------------------------------------------------------

\* private readonly CONCURRENT_REQUESTS = 50
CONCURRENT_REQUESTS == 50

\* the longest repository list
MaxItems == 120

\* the repository lists: their length, and which repositories resolve to no
\* assignment (every unknownEvery-th one, none when 0)
RepoLists ==
    {[items |-> n, unknownEvery |-> m] :
        n \in {0, 1, CONCURRENT_REQUESTS - 1, CONCURRENT_REQUESTS,
               CONCURRENT_REQUESTS + 1, 2 * CONCURRENT_REQUESTS, MaxItems},
        m \in {0, 3}}

\* if (!assignmentName) return null: no request is made for item j
Unresolved(list, j) == list.unknownEvery > 0 /\ j % list.unknownEvery = 0

\* items.slice(i, i + batchSize), as the positions of the items
Slice(list, i, batchSize) ==
    {j \in i + 1 .. i + batchSize : j <= list.items}

\* the state of a batchPromises call: the loop index, the results pushed,
\* the repositories of which no detail request has answered yet (pending),
\* those of which one of the two has answered (half), and how many
\* repositories had their requests issued and settled so far
Batching(pc, i, results, pending, half, issued, settled) ==
    [ op |-> "batchPromises", pc |-> pc, i |-> i, results |-> results,
      pending |-> pending, half |-> half, issued |-> issued, settled |-> settled ]

BatchesInit ==
    /\ input \in RepoLists
    /\ output = Batching("loop", 0, 0, 0, 0, 0, 0)
    /\ page = InitialPage
    /\ WebIdle
    /\ ReduceIdle
    /\ TierIdle

BatchesStep(next) ==
    /\ output' = next
    /\ UNCHANGED <<rAssignments, rStudent, input, page, gist, worker, quiz, auth>>
    /\ UNCHANGED tierVars

\* for (...; i < items.length; ...) { batch.map(promiseFn): every callback
\* of the batch starts, and those with an assignment name issue their two
\* requests
StartBatch ==
    /\ output.pc = "loop"
    /\ output.i < input.items
    /\ BatchesStep(
          [output EXCEPT
              !.pc = "await",
              !.pending = @ + Cardinality({j \in Slice(input, output.i, CONCURRENT_REQUESTS) :
                                              ~Unresolved(input, j)}),
              !.issued = @ + Cardinality({j \in Slice(input, output.i, CONCURRENT_REQUESTS) :
                                             ~Unresolved(input, j)})])

\* one of the two requests of a repository answers or fails (and is caught)
FirstRequestSettles ==
    /\ output.pending > 0
    /\ BatchesStep([output EXCEPT !.pending = @ - 1, !.half = @ + 1])

\* the other request answers or fails: the repository's callback resolves
SecondRequestSettles ==
    /\ output.half > 0
    /\ BatchesStep([output EXCEPT !.half = @ - 1, !.settled = @ + 1])

\* a loop that moves on without waiting for the batch
BatchSettledEarly ==
    /\ output.pc = "await"
    /\ BatchesStep(
          [output EXCEPT
              !.pc = "loop",
              !.results = @ + Cardinality(Slice(input, output.i, CONCURRENT_REQUESTS)),
              !.i = @ + CONCURRENT_REQUESTS])

\* await Promise.all(...) resolves once every callback of the batch has;
\* results.push(...batchResults); i += batchSize
BatchSettled ==
    /\ output.pc = "await"
    /\ output.pending = 0
    /\ output.half = 0
    /\ BatchesStep(
          [output EXCEPT
              !.pc = "loop",
              !.results = @ + Cardinality(Slice(input, output.i, CONCURRENT_REQUESTS)),
              !.i = @ + CONCURRENT_REQUESTS])

\* return results
BatchesReturn ==
    /\ output.pc = "loop"
    /\ output.i >= input.items
    /\ BatchesStep([output EXCEPT !.pc = "done"])

BatchesNext ==
    \/ StartBatch
    \/ FirstRequestSettles
    \/ SecondRequestSettles
    \/ BatchSettled
    \/ BatchesReturn

SpecBatches == BatchesInit /\ [][BatchesNext]_vars

\* C18: at most 50 repositories have detail requests in flight, and requests
\* are issued only when every request issued before has settled.
C18_BatchesOfFifty ==
    /\ [](output.pending + output.half <= 50)
    /\ [][output'.issued > output.issued => output.settled = output.issued]_vars

\* the second batch of 50 is in flight, partly answered, after the first 50
\* results were pushed
C18_Witness ==
    /\ output # Null
    /\ output.op = "batchPromises"
    /\ output.i = 50
    /\ output.results = 50
    /\ output.pending + output.half = 50
    /\ output.half > 0
    /\ output.pc = "await"


\* ------------------------------------------------------------------------
\* Two dashboard loads whose calls overlap (SpecOverlap)
\* ------------------------------------------------------------------------

\* the two loads, each on its own GitHubClassroomAPI, sharing the store
Refreshers == {1, 2}

\* kept for the properties: whether a call started while another one was
\* running, and the callers whose put ran, in the order of the puts
Overlap(overlapped, writes) ==
    [op |-> "overlap", overlapped |-> overlapped, writes |-> writes]

Running(c) == call[c].pc \notin {"idle", "done", "failed"}

OverlapInit ==
    /\ input = Null
    /\ output = Overlap(FALSE, <<>>)
    /\ page = InitialPage
    /\ WebIdle
    /\ ReduceIdle
    /\ now = StartTime
    /\ ticks = 0
    /\ github = Worlds[1]
    /\ snapshot \in { Snapshot(Null, Null),
                       Snapshot(Arr(batchGetAllStudents(GitHubA)),
                                StaticCacheMetadata(StartTime - 1,
                                                    batchGetAllStudents(GitHubA))) }
    /\ batchRuns = 0
    /\ idb \in {Null, CacheEntry(ForeignStudents, StartTime - 1, INDEXEDDB_TTL)}
    /\ txq = <<>>
    /\ call = [c \in Refreshers |-> IdleCall]
    /\ calls = 0
    /\ lastOk = Null

Started(c) ==
    /\ output' = [output EXCEPT !.overlapped = @ \/ \E d \in Refreshers \ {c} : Running(d)]
    /\ UNCHANGED <<rAssignments, rStudent, input, page, gist, worker, quiz, auth>>

Wrote(c) ==
    /\ output' = [output EXCEPT !.writes = Append(@, c)]
    /\ UNCHANGED <<rAssignments, rStudent, input, page, gist, worker, quiz, auth>>

OverlapNext ==
    \/ \E c \in Refreshers : StartGetAllStudents(c) /\ Started(c)
    \/ \E c \in Refreshers : StartForceSync(c) /\ Started(c)
    \/ \E c \in Refreshers : IdbGet(c) /\ UNCHANGED reduceVars
    \/ IdbDelete /\ UNCHANGED reduceVars
    \/ \E c \in Refreshers : IdbMeta(c) /\ UNCHANGED reduceVars
    \/ \E c \in Refreshers : StaticFetched(c, "ok", "ok") /\ UNCHANGED reduceVars
    \/ \E c \in Refreshers, failAt \in 0..1 :
          ReposListed(c, failAt) /\ UNCHANGED reduceVars
    \/ \E c \in Refreshers : DetailsFetched(c, {}, {}) /\ UNCHANGED reduceVars
    \/ \E c \in Refreshers : IdbPut(c) /\ Wrote(c)
    \/ \E world \in Range(Worlds) : GitHubChanges(world) /\ UNCHANGED reduceVars
    \/ Tick(1) /\ UNCHANGED reduceVars

SpecOverlap == OverlapInit /\ [][OverlapNext]_vars

\* the callers whose call has resolved after writing tier 1
Writers ==
    {c \in Refreshers :
        /\ call[c].pc = "done"
        /\ call[c].lastDataSource \in {"static-cache", "live-api"}}

\* C19: when two refreshes overlapped and both have completed after writing
\* tier 1, tier 1 holds one whole entry whose payload is the payload of the
\* refresh whose write ran last.
C19_LastWriteWins ==
    (/\ output # Null
     /\ output.op = "overlap"
     /\ output.overlapped
     /\ Writers = Refreshers)
    => /\ Len(output.writes) = 2
       /\ idb # Null
       /\ idb.data = call[output.writes[2]].result
       /\ idb.key = "students"
       /\ idb.expiresAt = idb.timestamp + 30 * 60 * 1000
       /\ validateStudentsArray(idb.data)

\* two overlapping refreshes with different payloads have completed: tier 1
\* holds the payload of the second write and not that of the first
C19_Witness ==
    /\ output # Null
    /\ output.op = "overlap"
    /\ output.overlapped
    /\ Writers = Refreshers
    /\ call[1].result # call[2].result
    /\ idb # Null
    /\ idb.data = call[output.writes[2]].result
    /\ idb.data # call[output.writes[1]].result


\* ------------------------------------------------------------------------
\* The dashboard page around its loads (SpecPage): loadStudentsFromGitHub
\* of page.tsx, started on mount while no student is shown and by the Sync
\* button, which is disabled while a load runs
\* ------------------------------------------------------------------------

\* the caller of the page's loads
PageCaller == CHOOSE c \in Callers : TRUE

\* setLoading(true); setError(null)
PageLoading(pg) == [pg EXCEPT !.loading = TRUE, !.error = ""]

\* setStudents; setCacheTimestamp; setCacheSource; finally setLoading(false)
PageAfterSuccess(pg, rec) ==
    [pg EXCEPT !.students = rec.result,
               !.cacheTimestamp = rec.lastSyncTimestamp,
               !.cacheSource = rec.lastDataSource,
               !.loading = FALSE]

\* a catch block that also empties what the page shows
PageAfterFailureCleared(pg, message) ==
    [pg EXCEPT !.error = IF message = "" THEN "Failed to load students from GitHub"
                         ELSE message,
               !.students = Arr(<<>>),
               !.cacheTimestamp = NoTimestamp,
               !.cacheSource = "null",
               !.loading = FALSE]

\* setError(err.message || 'Failed to load students from GitHub'); finally
\* setLoading(false)
PageAfterFailure(pg, message) ==
    [pg EXCEPT !.error = IF message = "" THEN "Failed to load students from GitHub"
                         ELSE message,
               !.loading = FALSE]

\* loadStudentsFromGitHub(forceSync) up to its await; input keeps what the
\* page displayed when the load started
LoadStudentsFromGitHub(forceSync) ==
    /\ ~ page.loading
    /\ forceSync \/ page.students = Arr(<<>>)
    /\ page' = PageLoading(page)
    /\ input' = page
    /\ output' = Null
    /\ IF forceSync THEN StartForceSync(PageCaller)
       ELSE StartGetAllStudents(PageCaller)
    /\ UNCHANGED <<rAssignments, rStudent, gist, worker, quiz, auth>>

\* the awaited call settles: the rest of the try block, or the catch block,
\* and the finally block
LoadSettled ==
    /\ call[PageCaller].pc \in {"done", "failed"}
    /\ page' = IF call[PageCaller].pc = "done"
               THEN PageAfterSuccess(page, call[PageCaller])
               ELSE PageAfterFailure(page, call[PageCaller].error)
    /\ output' = Answer("loadStudentsFromGitHub", call[PageCaller].pc)
    /\ Ack(PageCaller)
    /\ UNCHANGED <<rAssignments, rStudent, input, gist, worker, quiz, auth>>

PageNext ==
    \/ \E forceSync \in BOOLEAN : LoadStudentsFromGitHub(forceSync)
    \/ LoadSettled
    \/ IdbGet(PageCaller) /\ UNCHANGED reduceVars
    \/ IdbDelete /\ UNCHANGED reduceVars
    \/ IdbMeta(PageCaller) /\ UNCHANGED reduceVars
    \/ \E metadataOutcome, studentsOutcome \in {"ok", "error"} :
          StaticFetched(PageCaller, metadataOutcome, studentsOutcome)
          /\ UNCHANGED reduceVars
    \/ \E failAt \in 0..1 : ReposListed(PageCaller, failAt) /\ UNCHANGED reduceVars
    \/ DetailsFetched(PageCaller, {}, {}) /\ UNCHANGED reduceVars
    \/ IdbPut(PageCaller) /\ UNCHANGED reduceVars
    \/ \E d \in TickSteps : Tick(d) /\ UNCHANGED reduceVars
    \/ \E world \in Range(Worlds) : GitHubChanges(world) /\ UNCHANGED reduceVars
    \/ BatchRun /\ UNCHANGED reduceVars

SpecPage == Init /\ [][PageNext]_vars

\* C20: once a load or a forced sync has failed, the page holds an error,
\* is no longer loading, and shows the student list, the cache timestamp and
\* the cache source it showed when that load started.
C20_FailedLoadKeepsDisplay ==
    (/\ output # Null
     /\ output.op = "loadStudentsFromGitHub"
     /\ output.result = "failed")
    => /\ page.error # ""
       /\ page.loading = FALSE
       /\ page.students = input.students
       /\ page.cacheTimestamp = input.cacheTimestamp
       /\ page.cacheSource = input.cacheSource

\* a forced sync has failed on a page that shows students of an earlier load
C20_Witness ==
    /\ output # Null
    /\ output.op = "loadStudentsFromGitHub"
    /\ output.result = "failed"
    /\ page.students # Arr(<<>>)
    /\ page.cacheSource # "null"
    /\ page.cacheTimestamp # NoTimestamp
    /\ page.error = "GitHub API error"
    /\ ~ page.loading


\* ------------------------------------------------------------------------
\* CSV mode: checkStudentPass of page.tsx on its own (SpecCsv)
\* ------------------------------------------------------------------------

\* const CS50_CHOICE_GROUPS; assignment names of CSV mode are plain strings
CS50_CHOICE_GROUPS ==
    << {"mario-less", "mario-more"}, {"cash", "credit"},
       {"caesar", "substitution"}, {"filter-less", "filter-more"},
       {"runoff", "tideman"} >>

\* the groups of which at least one assignment was submitted
relevantChoiceGroups(allSubmittedAssignments) ==
    {g \in Range(CS50_CHOICE_GROUPS) : g \cap allSubmittedAssignments # {}}

\* submitted assignments that are in no relevant choice group
requiredAssignments(allSubmittedAssignments) ==
    {a \in allSubmittedAssignments :
        ~ \E g \in relevantChoiceGroups(allSubmittedAssignments) : a \in g}

\* !grade || grade.points !== grade.maxPoints || grade.maxPoints === 0
RequiredFails(studentAssignments, required) ==
    \/ required \notin DOMAIN studentAssignments
    \/ studentAssignments[required].points # studentAssignments[required].maxPoints
    \/ studentAssignments[required].maxPoints = 0

\* scoresInGroup.length === 0, or no score of the group with
\* grade.points === grade.maxPoints && grade.maxPoints > 0
GroupFails(studentAssignments, group) ==
    \/ group \cap DOMAIN studentAssignments = {}
    \/ ~ \E a \in group \cap DOMAIN studentAssignments :
            /\ studentAssignments[a].points = studentAssignments[a].maxPoints
            /\ studentAssignments[a].maxPoints > 0

\* a check that wants a perfect score on every submitted option of a group
checkStudentPassEveryOption(studentAssignments, allSubmittedAssignments) ==
    \A a \in allSubmittedAssignments : ~ RequiredFails(studentAssignments, a)

checkStudentPass(studentAssignments, allSubmittedAssignments) ==
    /\ \A required \in requiredAssignments(allSubmittedAssignments) :
          ~ RequiredFails(studentAssignments, required)
    /\ \A group \in relevantChoiceGroups(allSubmittedAssignments) :
          ~ GroupFails(studentAssignments, group)

\* assignment names of the loaded CSV files
CsvNames == {"hello", "mario-less", "mario-more", "cash", "credit"}

\* a student's row in one file: points and the file's maximum, which
\* processCSV takes as the largest points of the file, starting from 0
CsvGrades ==
    { [points |-> 0, maxPoints |-> 0], [points |-> 0, maxPoints |-> 100],
      [points |-> 50, maxPoints |-> 100], [points |-> 100, maxPoints |-> 100] }

\* the loaded assignments, and the student's rows in some of their files
CsvInputs ==
    UNION { UNION { { [allSubmittedAssignments |-> loaded, studentAssignments |-> f] :
                        f \in [have -> CsvGrades] }
                    : have \in SUBSET loaded }
            : loaded \in SUBSET CsvNames }

CsvInit ==
    /\ input \in CsvInputs
    /\ output = Null
    /\ page = InitialPage
    /\ WebIdle
    /\ ReduceIdle
    /\ TierIdle

CheckStudentPass ==
    /\ output = Null
    /\ output' = Answer("checkStudentPass",
                        checkStudentPass(input.studentAssignments,
                                         input.allSubmittedAssignments))
    /\ UNCHANGED <<rAssignments, rStudent, input, page, gist, worker, quiz, auth>>
    /\ UNCHANGED tierVars

SpecCsv == CsvInit /\ [][CheckStudentPass]_vars

\* the student has a row for the assignment with points equal to a maximum
\* that is not zero
PerfectOn(a) ==
    /\ a \in DOMAIN input.studentAssignments
    /\ input.studentAssignments[a].points = input.studentAssignments[a].maxPoints
    /\ input.studentAssignments[a].maxPoints # 0

InSomeGroup(a) == \E i \in DOMAIN CS50_CHOICE_GROUPS : a \in CS50_CHOICE_GROUPS[i]

\* C21: checkStudentPass is true exactly when the student is perfect on
\* every loaded assignment that is in no choice group and on at least one
\* option of every choice group of which an option is loaded.
C21_PassIffPerfect ==
    (output # Null /\ output.op = "checkStudentPass")
    => (output.result
        <=> /\ \A a \in input.allSubmittedAssignments : InSomeGroup(a) \/ PerfectOn(a)
            /\ \A i \in DOMAIN CS50_CHOICE_GROUPS :
                  (\E a \in CS50_CHOICE_GROUPS[i] : a \in input.allSubmittedAssignments)
                  => \E a \in CS50_CHOICE_GROUPS[i] : PerfectOn(a))

\* passed with both mario options loaded and only one of them perfect, a
\* loaded required assignment perfect
C21_Witness ==
    /\ output # Null
    /\ output.op = "checkStudentPass"
    /\ output.result
    /\ {"hello", "mario-less", "mario-more"} \subseteq input.allSubmittedAssignments
    /\ PerfectOn("mario-more")
    /\ "mario-less" \in DOMAIN input.studentAssignments
    /\ ~ PerfectOn("mario-less")


\* C22: once a saveToCache of this session has stored its entry, the entry
\* is not removed by a delete: as long as it has not expired, the store
\* holds an entry after every step.
C22_WrittenEntryStays ==
    [][(/\ output # Null
        /\ output.op = "overlap"
        /\ output.writes # <<>>
        /\ idb # Null
        /\ now <= idb.expiresAt)
       => idb' # Null]_vars


\* ------------------------------------------------------------------------
\* A tier-1 store whose requests may fail (SpecStoreDown): initDB rejects,
\* or the request of a transaction ends in onerror
\* ------------------------------------------------------------------------

\* kept for the properties: whether a read or a write of the store failed
\* during the current call
StoreFailures(readFailed, writeFailed) ==
    [op |-> "store", readFailed |-> readFailed, writeFailed |-> writeFailed]

StoreDownInit ==
    /\ rAssignments = <<>>
    /\ rStudent = Null
    /\ input = Null
    /\ output = StoreFailures(FALSE, FALSE)
    /\ page = InitialPage
    /\ WebIdle
    /\ TierInit

\* getFromCache or getCacheMetadata rejects: the catch of tier 1 logs it and
\* getAllStudents goes on to fetchStaticCache
IdbReadFails(c) ==
    /\ call[c].pc \in {"getFromCache", "getCacheMetadata"}
    /\ txq # <<>> /\ Head(txq).op \in {"get", "meta"} /\ Head(txq).caller = c
    /\ txq' = Tail(txq)
    /\ call' = Set(c, [call[c] EXCEPT !.pc = "fetchStaticCache",
                                       !.cached = Null,
                                       !.snapFetches = @ + 1])
    /\ UNCHANGED <<now, ticks, github, snapshot, batchRuns, idb, calls, lastOk>>

\* saveToCache rejects.  In tier 2 the await stands in the try block of the
\* snapshot, whose catch falls through to the live fetch; in tier 3 and in
\* forceSync it has a try block of its own and the call resolves
IdbPutFails(c) ==
    /\ call[c].pc \in {"saveStatic", "saveLive"}
    /\ txq # <<>> /\ Head(txq).op = "put" /\ Head(txq).caller = c
    /\ txq' = Tail(txq)
    /\ IF call[c].pc = "saveStatic"
       THEN /\ call' = Set(c, BeginLive(call[c], now))
            /\ lastOk' = lastOk
       ELSE /\ call' = Set(c, Resolve(call[c], call[c].liveData, "live-api", now))
            /\ lastOk' = Returned(call[c].liveData, idb)
    /\ UNCHANGED <<now, ticks, github, snapshot, batchRuns, idb, calls>>

Untracked == UNCHANGED <<rAssignments, rStudent, input, output, page, gist, worker, quiz, auth>>

Tracked(readFailed, writeFailed) ==
    /\ output' = StoreFailures(readFailed, writeFailed)
    /\ UNCHANGED <<rAssignments, rStudent, input, page, gist, worker, quiz, auth>>

StoreDownNext ==
    \/ \E c \in Callers :
          NoCallInProgress /\ StartGetAllStudents(c) /\ Tracked(FALSE, FALSE)
    \/ \E c \in Callers :
          NoCallInProgress /\ StartForceSync(c) /\ Tracked(FALSE, FALSE)
    \/ \E c \in Callers : IdbGet(c) /\ Untracked
    \/ \E c \in Callers : IdbReadFails(c) /\ Tracked(TRUE, output.writeFailed)
    \/ IdbDelete /\ Untracked
    \/ \E c \in Callers : IdbMeta(c) /\ Untracked
    \/ \E c \in Callers, metadataOutcome, studentsOutcome \in {"ok", "error"} :
          StaticFetched(c, metadataOutcome, studentsOutcome) /\ Untracked
    \/ \E c \in Callers, failAt \in 0..1 : ReposListed(c, failAt) /\ Untracked
    \/ \E c \in Callers : DetailsFetched(c, {}, {}) /\ Untracked
    \/ \E c \in Callers : IdbPut(c) /\ Untracked
    \/ \E c \in Callers : IdbPutFails(c) /\ Tracked(output.readFailed, TRUE)
    \/ \E c \in Callers : Ack(c) /\ Untracked
    \/ \E d \in TickSteps : Tick(d) /\ Untracked
    \/ BatchRun /\ Untracked

SpecStoreDown == StoreDownInit /\ [][StoreDownNext]_vars

\* the call found a snapshot that was valid and less than 2 hours old
SawFreshSnapshot(c) ==
    /\ call[c].staticData # Null
    /\ call[c].staticAt - call[c].staticData.metadata.timestamp < 2 * 60 * 60 * 1000
    /\ validateStudentsArray(call[c].staticData.students)

\* C23: a getAllStudents call during which reads or writes of tier 1 failed
\* and which found a fresh valid snapshot does not fail: it returns the
\* snapshot with source static-cache and makes no GitHub API request.
C23_FailingStoreKeepsTier ==
    \A c \in Callers :
        (/\ output # Null
         /\ output.op = "store"
         /\ output.readFailed \/ output.writeFailed
         /\ call[c].kind = "getAllStudents"
         /\ SawFreshSnapshot(c))
        => /\ call[c].apiRequests = 0
           /\ call[c].listings = 0
           /\ call[c].pc # "failed"
           /\ call[c].pc = "done" =>
                 /\ call[c].lastDataSource = "static-cache"
                 /\ call[c].result = call[c].staticData.students


\* ------------------------------------------------------------------------
\* Where the payload of tier 1 comes from (SpecProduced)
\* ------------------------------------------------------------------------

\* kept for the properties: the generation time of the snapshot whose
\* students the tier-1 entry holds, NoTimestamp when the entry holds
\* something else
Produced(at) == [op |-> "produced", at |-> at]

ProducedInit ==
    /\ rAssignments = <<>>
    /\ rStudent = Null
    /\ input = Null
    /\ output = Produced(NoTimestamp)
    /\ page = InitialPage
    /\ WebIdle
    /\ TierInit

Holding(at) ==
    /\ output' = Produced(at)
    /\ UNCHANGED <<rAssignments, rStudent, input, page, gist, worker, quiz, auth>>

ProducedNext ==
    \/ \E c \in Callers : NoCallInProgress /\ StartGetAllStudents(c) /\ Untracked
    \/ \E c \in Callers : NoCallInProgress /\ StartForceSync(c) /\ Untracked
    \/ \E c \in Callers : IdbGet(c) /\ Untracked
    \/ IdbDelete /\ Holding(NoTimestamp)
    \/ \E c \in Callers : IdbMeta(c) /\ Untracked
    \/ \E c \in Callers : StaticFetched(c, "ok", "ok") /\ Untracked
    \/ \E c \in Callers, failAt \in 0..1 : ReposListed(c, failAt) /\ Untracked
    \/ \E c \in Callers : DetailsFetched(c, {}, {}) /\ Untracked
    \/ \E c \in Callers :
          /\ IdbPut(c)
          /\ Holding(IF call[c].pc = "saveStatic"
                     THEN call[c].staticData.metadata.timestamp
                     ELSE NoTimestamp)
    \/ \E c \in Callers : Ack(c) /\ Untracked
    \/ \E d \in TickSteps : Tick(d) /\ Untracked
    \/ BatchRun /\ Untracked

SpecProduced == ProducedInit /\ [][ProducedNext]_vars

\* C24: a getAllStudents call that is served from a tier-1 entry holding the
\* students of a snapshot reports the generation time of that snapshot as
\* lastSyncTimestamp.
C24_TimestampOfSnapshot ==
    \A c \in Callers :
        (/\ output # Null
         /\ output.op = "produced"
         /\ output.at # NoTimestamp
         /\ call[c].pc = "done"
         /\ call[c].lastDataSource = "indexeddb")
        => call[c].lastSyncTimestamp = output.at

\* ------------------------------------------------------------------------
\* One GitHubClassroomAPI kept over several forceSync calls: this.cache
\* lives as long as the instance.  GitHub changes between the calls only.
\* ------------------------------------------------------------------------

\* the instance between two calls: everything of the call is gone, this.cache
\* stays
SameInstance(rec) == [IdleCall EXCEPT !.cache = rec.cache]

\* forceSync is called on the instance of the previous call
ForceSyncSameInstance(c) ==
    /\ call[c].pc = "idle"
    /\ calls < MaxCalls
    /\ calls' = calls + 1
    /\ call' = Set(c, BeginLive([SameInstance(call[c]) EXCEPT
                                    !.kind = "forceSync",
                                    !.freshAtStart = FreshValid(idb, now),
                                    !.prevOk = lastOk], now))
    /\ UNCHANGED <<now, ticks, github, snapshot, batchRuns, idb, txq, lastOk>>

\* the caller has taken the outcome and keeps the instance
AckSameInstance(c) ==
    /\ call[c].pc \in {"done", "failed"}
    /\ call' = Set(c, SameInstance(call[c]))
    /\ UNCHANGED <<now, ticks, github, snapshot, batchRuns, idb, txq, calls, lastOk>>

SameInstanceNext ==
    \/ \E c \in Callers : ForceSyncSameInstance(c) /\ UNCHANGED reduceVars
    \/ \E c \in Callers, failAt \in 0..1 :
          ReposListed(c, failAt) /\ UNCHANGED reduceVars
    \/ \E c \in Callers : DetailsFetched(c, {}, {}) /\ UNCHANGED reduceVars
    \/ \E c \in Callers : IdbPut(c) /\ UNCHANGED reduceVars
    \/ \E c \in Callers : AckSameInstance(c) /\ UNCHANGED reduceVars
    \/ \E d \in TickSteps : Tick(d) /\ UNCHANGED reduceVars
    \/ \E world \in Range(Worlds) :
          NoCallInProgress /\ GitHubChanges(world) /\ UNCHANGED reduceVars

SpecSameInstance == Init /\ [][SameInstanceNext]_vars

\* C25: the students a forceSync returns are those of a live fetch of the
\* organization as it is during the call, whatever was cached before the
\* call, this.cache of the same instance included
C25_ForceSyncIgnoresCaches ==
    \A c \in Callers :
        (call[c].kind = "forceSync" /\ call[c].pc = "done")
            => call[c].result =
                   Arr(getAllStudentsFromAPI(github,
                           assignmentRepos(Listing(github)), {}, {}))

\* ------------------------------------------------------------------------
\* getAllStudentsFromAPI over organizations of many shapes (SpecLiveFetch)
\* ------------------------------------------------------------------------

\* repositories an organization can hold: two of one student (one under an
\* alternative name), one student in two spellings, a username with a dash,
\* a name that ends in a dash, an assignment name alone, an unknown name
RepoPool ==
    << Repo(<<"nvnacs50", "hello", "alice">>, "org", Commit(5),
            Run("completed", "success")),
       Repo(<<"nvnacs50", "me", "alice">>, "org", Commit(3),
            Run("completed", "failure")),
       Repo(<<"nvnacs50", "mario", "less", "Bob">>, "org", Commit(4),
            Run("in_progress", "")),
       Repo(<<"nvnacs50", "cash", "bob">>, "org", Commit(6), Null),
       Repo(<<"nvnacs50", "mario", "more", "jean", "luc">>, "org", Null, Null),
       Repo(<<"nvnacs50", "cash", "">>, "org", Commit(2), Null),
       Repo(<<"nvnacs50", "credit">>, "org", Commit(1), Null),
       Repo(<<"nvnacs50", "notes", "carol">>, "org", Commit(2), Null) >>

\* the organization holds any of them
LiveFetchInit ==
    /\ input \in {[org |-> Filter(RepoPool, held)] : held \in SUBSET Range(RepoPool)}
    /\ output = Null
    /\ page = InitialPage
    /\ WebIdle
    /\ ReduceIdle
    /\ TierIdle

\* the live fetch on the listing of the organization
LiveFetch ==
    /\ output = Null
    /\ output' = Answer("getAllStudentsFromAPI",
                        Arr(getAllStudentsFromAPI(input.org,
                                assignmentRepos(Listing(input.org)), {}, {})))
    /\ UNCHANGED <<rAssignments, rStudent, input, page, gist, worker, quiz, auth>>
    /\ UNCHANGED tierVars

SpecLiveFetch == LiveFetchInit /\ [][LiveFetch]_vars

\* where in a students array the result of a repository is found
PlacesOf(students, repoName) ==
    {at \in UNION {{<<i, j>> : j \in DOMAIN students[i].assignments} :
                      i \in DOMAIN students} :
        students[at[1]].assignments[at[2]].repoName = repoName}

\* C26: in the result of a live fetch every repository that resolves to an
\* assignment and to a non-empty username is found in exactly one place,
\* among the assignments of the student of that username and under that
\* assignment's name, and no student has an empty assignments list
C26_OneResultPerRepository ==
    (output # Null /\ output.op = "getAllStudentsFromAPI") =>
        /\ \A i \in DOMAIN input.org :
              (/\ parseAssignmentName(input.org[i].name) # NoStr
               /\ ~ Falsy(extractUsernameFromRepo(input.org[i].name)))
              => /\ Cardinality(PlacesOf(output.result.array, input.org[i].name)) = 1
                 /\ \A at \in PlacesOf(output.result.array, input.org[i].name) :
                       /\ output.result.array[at[1]].username
                              = extractUsernameFromRepo(input.org[i].name)
                       /\ output.result.array[at[1]].assignments[at[2]].name
                              = parseAssignmentName(input.org[i].name)
        /\ \A i \in DOMAIN output.result.array :
              output.result.array[i].assignments # <<>>

\* the whole pool was fetched: three students, alice with two results, and
\* the three repositories without a student in no record
C26_Witness ==
    /\ output # Null /\ output.op = "getAllStudentsFromAPI"
    /\ input.org = RepoPool
    /\ Len(output.result.array) = 3
    /\ \E i \in DOMAIN output.result.array :
          /\ output.result.array[i].username = <<"alice">>
          /\ Len(output.result.array[i].assignments) = 2
    /\ \E i \in DOMAIN output.result.array :
          /\ output.result.array[i].username = <<"bob">>
          /\ Len(output.result.array[i].assignments) = 2
    /\ PlacesOf(output.result.array, <<"nvnacs50", "cash", "">>) = {}
    /\ PlacesOf(output.result.array, <<"nvnacs50", "credit">>) = {}
    /\ PlacesOf(output.result.array, <<"nvnacs50", "notes", "carol">>) = {}

\* ------------------------------------------------------------------------
\* The quiz results worker (fetch of the Cloudflare Worker) and the results
\* gist it appends to.  One action per point where the handler waits for
\* GitHub; the gist is read with one request and written with another.
\* ------------------------------------------------------------------------

\* a JSON number; an absent field (undefined) is Null
Num(n) == [number |-> n]

\* bodies students' pages post: with and without a username, a score and a
\* percentage
Submissions ==
    { [username |-> u, score |-> v.score, total |-> Num(2), percentage |-> v.percentage] :
        u \in {"", "alice", "bob"},
        v \in { [score |-> Num(2), percentage |-> "100.00"],
                [score |-> Null, percentage |-> "50.00"],
                [score |-> Num(1), percentage |-> ""] } }

\* !result.username || result.score === undefined ||
\* result.total === undefined || !result.percentage
InvalidResult(result) ==
    \/ result.username = ""
    \/ result.score = Null
    \/ result.total = Null
    \/ result.percentage = ""

\* the Response the handler returns
Respond(rec, status, error) ==
    [rec EXCEPT !.pc = "done", !.status = status, !.error = error]

\* a duplicate check that finds nothing
AlreadySubmittedNever(content, username) == FALSE

\* currentContent.find(r => r.username === result.username)
AlreadySubmitted(content, username) ==
    \E i \in DOMAIN content : content[i].username = username

\* { ...result, submittedAt: new Date().toISOString() }
Submitted(result, at) ==
    [ username |-> result.username, score |-> result.score, total |-> result.total,
      percentage |-> result.percentage, submittedAt |-> at ]

\* what the other variables do while the worker runs
WorkerOnly ==
    /\ UNCHANGED <<rAssignments, rStudent, input, output, page, quiz, auth>>
    /\ UNCHANGED tierVars

\* fetch(request, env) up to its first request to GitHub: the preflight, the
\* method check, request.json(), the validation and the configuration check
WorkerFetch(r, method, result, configured) ==
    /\ worker[r].pc = "none"
    /\ LET rec == [IdleRequest EXCEPT !.method = method, !.result = result]
       IN  worker' = [worker EXCEPT ![r] =
               IF method = "OPTIONS" THEN Respond(rec, 200, "")
               ELSE IF method # "POST" THEN Respond(rec, 405, "Method not allowed")
               ELSE IF InvalidResult(result)
                    THEN Respond(rec, 400, "Invalid result data")
               ELSE IF ~ configured
                    THEN Respond(rec, 500, "Worker not configured properly")
               ELSE [rec EXCEPT !.pc = "fetchGist"]]
    /\ UNCHANGED gist
    /\ WorkerOnly

\* the GET of the gist answers: not ok, or the file's content, in which the
\* username is looked up; a new result is appended and the PATCH sent
GistFetched(r, ok) ==
    /\ worker[r].pc = "fetchGist"
    /\ LET rec == worker[r]
       IN  worker' = [worker EXCEPT ![r] =
               IF ~ ok THEN Respond(rec, 500, "Failed to fetch Gist")
               ELSE IF AlreadySubmitted(gist, rec.result.username)
                    THEN Respond([rec EXCEPT !.currentContent = gist], 400,
                                 "already submitted")
               ELSE [rec EXCEPT !.pc = "patch",
                                !.currentContent =
                                    Append(gist, Submitted(rec.result, now))]]
    /\ UNCHANGED gist
    /\ WorkerOnly

\* the PATCH answers: GitHub has replaced the file's content, or it has not
GistPatched(r, ok) ==
    /\ worker[r].pc = "patch"
    /\ gist' = IF ok THEN worker[r].currentContent ELSE gist
    /\ LET rec == worker[r]
       IN  worker' = [worker EXCEPT ![r] =
               IF ok THEN Respond(rec, 200, "")
               ELSE Respond(rec, 500, "Failed to save result")]
    /\ WorkerOnly

WebInit ==
    /\ input = Null
    /\ output = Null
    /\ page = InitialPage
    /\ WebIdle
    /\ ReduceIdle
    /\ TierIdle

\* requests arrive at any time: the handlers of several run interleaved
WorkerNext ==
    \/ \E r \in Requests, method \in {"OPTIONS", "GET", "POST"},
          result \in Submissions, configured \in BOOLEAN :
          WorkerFetch(r, method, result, configured)
    \/ \E r \in Requests, ok \in BOOLEAN : GistFetched(r, ok)
    \/ \E r \in Requests, ok \in BOOLEAN : GistPatched(r, ok)

SpecWorker == WebInit /\ [][WorkerNext]_vars

\* no handler is between its first and its last step
WorkerQuiet == \A r \in Requests : worker[r].pc \in {"none", "done"}

\* a request arrives only when the one before it has been answered
OneAtATimeNext ==
    \/ \E r \in Requests, method \in {"OPTIONS", "GET", "POST"},
          result \in Submissions, configured \in BOOLEAN :
          WorkerQuiet /\ WorkerFetch(r, method, result, configured)
    \/ \E r \in Requests, ok \in BOOLEAN : GistFetched(r, ok)
    \/ \E r \in Requests, ok \in BOOLEAN : GistPatched(r, ok)

SpecOneAtATime == WebInit /\ [][OneAtATimeNext]_vars

C28_SuccessIsStored ==
    \A r \in Requests :
        (worker[r].pc = "done" /\ worker[r].method = "POST" /\ worker[r].status = 200)
            => \E i \in DOMAIN gist : gist[i].username = worker[r].result.username

\* ------------------------------------------------------------------------
\* The quiz page: startQuiz, the timer of QuizManager, handleTimerExpired
\* and submitQuiz.  alert and confirm block the page: while one is open no
\* timer callback and no other handler runs.
\* ------------------------------------------------------------------------

\* config.timeLimit of the QuizManager, in seconds: a short quiz (startQuiz
\* asks for 25 * 60)
TimeLimit == 3

\* clicks on the submit button that lead to a call of submitResult
MaxSubmissions == 2

\* questions of the quiz: the bank holds fewer than the 25 asked for
NumQuestions == 2

\* answers a question offers
NumAnswers == 2

AnswerIndexes == 0..(NumAnswers - 1)

\* the page after startQuiz: new QuizManager, initializeQuiz, startTimer,
\* showScreen('active')
StartedQuiz ==
    [ userAnswers |-> [i \in 1..NumQuestions |-> Null],
      currentQuestionIndex |-> 0,
      timeRemaining |-> TimeLimit,
      timerInterval |-> TRUE,        \* timerInterval is not null
      screen |-> "active",
      dialog |-> "none",             \* the alert or confirm that is open
      pc |-> "none",                 \* "submitResult" while submitQuiz awaits it
      attempted |-> FALSE,           \* LocalQuizAttempts.markAttempted was called
      submissions |-> 0 ]            \* calls of quizStorage.submitResult so far

\* what the other variables do while the quiz page runs
QuizOnly ==
    /\ UNCHANGED <<rAssignments, rStudent, input, output, page, gist, worker, auth>>
    /\ UNCHANGED tierVars

\* no dialog is open and the quiz is on the screen
QuizResponsive ==
    /\ quiz # Null
    /\ quiz.dialog = "none"
    /\ quiz.screen = "active"

\* userAnswers.map(...).filter(index => index !== null)
getUnansweredQuestions(userAnswers) ==
    {i \in DOMAIN userAnswers : userAnswers[i] = Null}

\* submitQuiz after its check of the unanswered questions: stopTimer,
\* getQuizResult, markAttempted, and the call of submitResult it awaits
SubmitQuizConfirmed(q) ==
    [q EXCEPT !.timerInterval = FALSE,
              !.dialog = "none",
              !.attempted = TRUE,
              !.pc = "submitResult",
              !.submissions = @ + 1]

\* submitQuiz up to the point where it waits: for the student's answer to
\* window.confirm when questions are unanswered, else for submitResult
submitQuiz(q) ==
    IF getUnansweredQuestions(q.userAnswers) # {}
    THEN [q EXCEPT !.dialog = "confirm"]
    ELSE SubmitQuizConfirmed(q)

\* click on the start button
StartQuiz ==
    /\ quiz = Null
    /\ quiz' = StartedQuiz
    /\ QuizOnly

\* the interval callback of startTimer: one second less; at zero stopTimer
\* and handleTimerExpired, which opens its alert
TimerTick ==
    /\ quiz # Null
    /\ quiz.dialog = "none"
    /\ quiz.timerInterval
    /\ quiz' = IF quiz.timeRemaining - 1 <= 0
               THEN [quiz EXCEPT !.timeRemaining = @ - 1,
                                 !.timerInterval = FALSE,
                                 !.dialog = "expired"]
               ELSE [quiz EXCEPT !.timeRemaining = @ - 1]
    /\ QuizOnly

\* the student closes the alert of handleTimerExpired: submitQuiz()
ExpiredAlertClosed ==
    /\ quiz # Null
    /\ quiz.dialog = "expired"
    /\ quiz' = submitQuiz([quiz EXCEPT !.dialog = "none"])
    /\ QuizOnly

\* click on the submit button
SubmitClicked ==
    /\ QuizResponsive
    /\ quiz.submissions < MaxSubmissions
    /\ quiz' = submitQuiz(quiz)
    /\ QuizOnly

\* the student answers window.confirm: on Cancel submitQuiz returns
ConfirmAnswered(ok) ==
    /\ quiz # Null
    /\ quiz.dialog = "confirm"
    /\ quiz' = IF ok THEN SubmitQuizConfirmed(quiz)
               ELSE [quiz EXCEPT !.dialog = "none"]
    /\ QuizOnly

\* submitResult settles: showResults, or the alert of the catch block
SubmitResultSettled(ok) ==
    /\ quiz # Null
    /\ quiz.pc = "submitResult"
    /\ quiz.dialog = "none"
    /\ quiz' = IF ok THEN [quiz EXCEPT !.pc = "none", !.screen = "results"]
               ELSE [quiz EXCEPT !.pc = "none", !.dialog = "error"]
    /\ QuizOnly

\* the student closes the alert of the catch block
ErrorAlertClosed ==
    /\ quiz # Null
    /\ quiz.dialog = "error"
    /\ quiz' = [quiz EXCEPT !.dialog = "none"]
    /\ QuizOnly

\* handleAnswerSelect: answerCurrentQuestion(answerIndex)
HandleAnswerSelect(answerIndex) ==
    /\ QuizResponsive
    /\ quiz' = [quiz EXCEPT
                  !.userAnswers[quiz.currentQuestionIndex + 1] = Num(answerIndex)]
    /\ QuizOnly

\* goToQuestion(index) of a navigator dot; the previous and next buttons
\* go to the neighbours
GoToQuestion(index) ==
    /\ QuizResponsive
    /\ index >= 0 /\ index < NumQuestions
    /\ quiz' = [quiz EXCEPT !.currentQuestionIndex = index]
    /\ QuizOnly

QuizNext ==
    \/ StartQuiz
    \/ TimerTick
    \/ ExpiredAlertClosed
    \/ SubmitClicked
    \/ \E ok \in BOOLEAN : ConfirmAnswered(ok)
    \/ \E ok \in BOOLEAN : SubmitResultSettled(ok)
    \/ ErrorAlertClosed
    \/ \E answerIndex \in AnswerIndexes : HandleAnswerSelect(answerIndex)
    \/ \E index \in 0..(NumQuestions - 1) : GoToQuestion(index)

SpecQuiz == WebInit /\ [][QuizNext]_vars

\* C29: once the timer has reached zero it is stopped, and as soon as the
\* page is no longer held by a dialog the result has been handed to
\* submitResult, answered questions or not
C29_ExpiredQuizIsSubmitted ==
    (quiz # Null /\ quiz.timeRemaining <= 0) =>
        /\ ~ quiz.timerInterval
        /\ quiz.dialog = "none" => quiz.submissions > 0

\* ------------------------------------------------------------------------
\* The login page: login and handleCallback of Auth, in one browser tab
\* ------------------------------------------------------------------------

\* callbacks that pass the state check
MaxExchanges == 2

\* values of generateState()
OAuthStates == {"s1", "s2"}

\* the state parameter of a callback URL: absent, empty, or a value
CallbackStates == {Null, Str("")} \cup {Str(s) : s \in OAuthStates}

\* the code parameter of a callback URL
CallbackCodes == {Null, Str("c1")}

\* !x of a nullable string
Not(x) == x = Null \/ x = Str("")

\* what the other variables do while the login page runs
AuthOnly ==
    /\ UNCHANGED <<rAssignments, rStudent, input, output, page, gist, worker, quiz>>
    /\ UNCHANGED tierVars

\* no handleCallback is waiting for the proxy or for GitHub
AuthSettled == auth.pc \in {"idle", "done", "failed"}

\* handleCallback throws
Throw(a, message) == [a EXCEPT !.pc = "failed", !.error = message]

\* a handleCallback that leaves the saved state in sessionStorage
KeepState(a) == a

\* sessionStorage.removeItem('oauth_state')
ConsumeState(a) == [a EXCEPT !.oauth_state = Null]

\* login(): a new state is saved and the browser leaves for GitHub
Login(state) ==
    /\ AuthSettled
    /\ auth' = [auth EXCEPT !.oauth_state = Str(state), !.pc = "idle"]
    /\ AuthOnly

\* handleCallback up to its first await: the state check, the removal of
\* the saved state, the check of the code, the request to the proxy sent
HandleCallback(code, state) ==
    /\ AuthSettled
    /\ auth.exchanges < MaxExchanges
    /\ LET savedState == auth.oauth_state
           called == [auth EXCEPT !.code = code, !.state = state,
                                  !.savedState = savedState, !.token = Null,
                                  !.error = ""]
       IN  auth' =
             IF Not(state) \/ state # savedState
             THEN Throw(called, "Invalid state parameter - possible CSRF attack")
             ELSE IF Not(code)
                  THEN Throw([ConsumeState(called) EXCEPT !.accepted = state],
                             "No authorization code received")
             ELSE [ConsumeState(called) EXCEPT !.accepted = state,
                                               !.pc = "exchangeCodeForToken",
                                               !.exchanges = @ + 1]
    /\ AuthOnly

\* exchangeCodeForToken settles: the token, or a throw
CodeExchanged(ok) ==
    /\ auth.pc = "exchangeCodeForToken"
    /\ auth' = IF ok THEN [auth EXCEPT !.token = Str("t1"), !.pc = "fetchUserData"]
               ELSE Throw(auth, "Token exchange failed")
    /\ AuthOnly

\* fetchUserData settles: setAuth(token, user), or a throw
UserDataFetched(ok) ==
    /\ auth.pc = "fetchUserData"
    /\ auth' = IF ok THEN [auth EXCEPT !.gh_token = auth.token,
                                       !.gh_user = Str("u1"),
                                       !.pc = "done"]
               ELSE Throw(auth, "Failed to fetch user data")
    /\ AuthOnly

\* logout(): clearAuth
Logout ==
    /\ AuthSettled
    /\ auth.gh_token # Null
    /\ auth' = [auth EXCEPT !.gh_token = Null, !.gh_user = Null]
    /\ AuthOnly

AuthNext ==
    \/ \E state \in OAuthStates : Login(state)
    \/ \E code \in CallbackCodes, state \in CallbackStates : HandleCallback(code, state)
    \/ \E ok \in BOOLEAN : CodeExchanged(ok)
    \/ \E ok \in BOOLEAN : UserDataFetched(ok)
    \/ Logout

SpecAuth == WebInit /\ [][AuthNext]_vars

\* C30: a code is exchanged only by a callback whose state parameter is
\* there, is not empty and equals the state login saved, and that callback
\* takes the saved state away; a token and a user are stored only by such a
\* callback; and while no state is saved no callback exchanges a code, so
\* the same state is not accepted twice
C30_StateCheckedAndConsumed ==
    /\ [][auth'.exchanges # auth.exchanges
            => /\ auth'.state # [null |-> TRUE]
               /\ auth'.state # [string |-> ""]
               /\ auth'.state = auth.oauth_state
               /\ auth'.oauth_state = [null |-> TRUE]]_vars
    /\ [][(auth'.gh_token # auth.gh_token \/ auth'.gh_user # auth.gh_user)
            => \/ auth'.gh_token = [null |-> TRUE] /\ auth'.gh_user = [null |-> TRUE]
               \/ /\ auth.pc = "fetchUserData"
                  /\ auth.state # [null |-> TRUE]
                  /\ auth.state # [string |-> ""]
                  /\ auth.state = auth.savedState]_vars
    /\ [][auth.oauth_state = [null |-> TRUE]
            => auth'.exchanges = auth.exchanges]_vars

\* a callback was accepted and its token stored; a second callback with the
\* same state and a code was then rejected, with no further exchange
C30_Witness ==
    /\ auth.pc = "failed"
    /\ auth.error = "Invalid state parameter - possible CSRF attack"
    /\ auth.state = auth.accepted
    /\ auth.state = Str("s1")
    /\ auth.code = Str("c1")
    /\ auth.savedState = Null
    /\ auth.gh_token # Null
    /\ auth.exchanges = 1

====
